---------------------------- MODULE Spec2Model ----------------------------
(***************************************************************************)
(* Complete-set arbitrage bot: order-book state, signal engine, execution  *)
(* engine (paired-order state machine), kill switch and ledger.            *)
(*                                                                         *)
(* Money is counted in units of 0.0001 (so 1.00 is 10000 and a price of    *)
(* 0.48 is 4800); a rate is counted in percent (fee_rate 0.02 is 2).       *)
(* Decimal arithmetic is exact, and so is the integer arithmetic here for  *)
(* prices that are multiples of 0.01.  Time is counted in ticks of thirty  *)
(* minutes: the ledger's rolling window of one hour is two ticks.          *)
(***************************************************************************)
EXTENDS Integers, Sequences, FiniteSets, TLC

VARIABLES
    cfg,            \* Config: strategy, execution, risk, paper_mode
    now,            \* the clock (datetime.now / sqlite 'now' / loop.time)
    markets,        \* OrderBookState._markets : market_id -> MarketBook
    token_to_market,\* OrderBookState._token_to_market
    in_flight,      \* SignalEngine._in_flight
    cooldowns,      \* SignalEngine._cooldowns (0 where the dict has no key)
    last_signal,    \* the TradeSignal of the latest evaluation
    exec_state,     \* ExecutionEngine._state (IDLE where the dict has no key)
    state_log,      \* the values ExecutionEngine._state[market_id] has taken, in order
    halted,         \* ExecutionEngine._halted
    daily_notional, \* ExecutionEngine._daily_notional
    open_positions, \* ExecutionEngine._open_positions
    ks,             \* KillSwitch: _triggered, _trigger_reason, _trigger_time
    opportunities,  \* ledger table opportunities
    tradesets,      \* ledger table tradesets (row id = index)
    orders,         \* ledger table orders
    risk_events,    \* ledger table risk_events
    ledger_open,    \* Ledger._conn is not None
    adapter_calls,  \* the requests the venue adapter has received, in order
    pc,             \* where the pipeline task is suspended
    att,            \* the locals of the execution attempt in progress
    running,        \* ArbBot._running
    cancelling,     \* the pipeline task has been cancelled and is unwinding
    delivered,      \* how many snapshots the adapter has delivered
    returned,       \* what the latest direct call of check_conditions returned
    ws              \* PolymarketAdapter: _connected, _reconnect_delay; its reconnects

vars == << cfg, now, markets, token_to_market, in_flight, cooldowns,
           last_signal, exec_state, state_log, halted, daily_notional, open_positions,
           ks, opportunities, tradesets, orders, risk_events, ledger_open,
           adapter_calls, pc, att, running, cancelling, delivered, returned, ws >>

---------------------------------------------------------------------------
(* Values *)

None == -1

One == 10000

HourTicks == 2

Markets == {"m1", "m2"}

YesToken(m) == IF m = "m1" THEN "y1" ELSE "y2"

NoToken(m) == IF m = "m1" THEN "n1" ELSE "n2"

UnknownToken == "zz"

OrderStatus ==
    {"PENDING", "OPEN", "FILLED", "PARTIALLY_FILLED", "CANCELLED",
     "REJECTED", "EXPIRED"}

\* A variant of the cancelable statuses that leaves a partially filled
\* order resting.
Cancelable_without_partial == {"OPEN", "PENDING"}

Cancelable == {"OPEN", "PENDING", "PARTIALLY_FILLED"}

TerminalStatus == {"filled", "partial_fill", "failed"}

\* Decimal product of an amount and a rate given in percent.
MulRate(x, pct) == (x * pct) \div 100

Min(a, b) == IF a < b THEN a ELSE b

---------------------------------------------------------------------------
(* Configuration *)

BaseConfig ==
    [ min_edge                    |-> 100,     \* 0.01
      cost_buffer                 |-> 50,      \* 0.005
      min_depth                   |-> 10,
      fee_rate                    |-> 2,       \* 0.02
      order_size                  |-> 10,
      order_timeout               |-> 1,       \* ticks
      cooldown                    |-> 1,       \* ticks
      max_daily_notional          |-> 10000000,\* 1000
      max_open_positions          |-> 1,
      halt_on_partial_fill        |-> TRUE,
      max_partial_fills_per_hour  |-> 2,
      max_rejects_per_hour        |-> 1,
      max_ws_disconnects_per_hour |-> 5,
      paper_mode                  |-> TRUE ]

\* The configurations the pipeline is run with.
PipelineConfigs ==
    { [BaseConfig EXCEPT !.paper_mode = p, !.halt_on_partial_fill = h] :
        p \in BOOLEAN, h \in BOOLEAN }

\* The configurations evaluate() is applied under: 158 is the edge of two
\* asks of 0.48, so that edge = min_edge occurs.
EvalConfigs ==
    { [BaseConfig EXCEPT !.min_edge = e] : e \in {100, 158} }

---------------------------------------------------------------------------
(* Order-book state *)

EmptyTokenBook(tid) ==
    [ token_id       |-> tid,
      best_bid_price |-> None, best_bid_size |-> None,
      best_ask_price |-> None, best_ask_size |-> None,
      last_update    |-> None, sequence      |-> None ]

NewMarketBook(m, yes_token_id, no_token_id) ==
    [ market_id |-> m,
      yes_token |-> EmptyTokenBook(yes_token_id),
      no_token  |-> EmptyTokenBook(no_token_id),
      active    |-> TRUE ]

has_valid_quotes(market) ==
    /\ market.yes_token.best_ask_price # None
    /\ market.yes_token.best_ask_size # None
    /\ market.no_token.best_ask_price # None
    /\ market.no_token.best_ask_size # None

sum_ask_cost(market) ==
    IF ~has_valid_quotes(market) THEN None
    ELSE market.yes_token.best_ask_price + market.no_token.best_ask_price

min_available_size(market) ==
    IF ~has_valid_quotes(market) THEN None
    ELSE Min(market.yes_token.best_ask_size, market.no_token.best_ask_size)

---------------------------------------------------------------------------
(* Signal engine *)

MakeSignal(market, t, decision, with_quotes, sum_cost, edge, c) ==
    [ market_id   |-> market.market_id,
      timestamp   |-> t,
      decision    |-> decision,
      yes_ask     |-> IF with_quotes THEN market.yes_token.best_ask_price ELSE None,
      no_ask      |-> IF with_quotes THEN market.no_token.best_ask_price ELSE None,
      yes_size    |-> IF with_quotes THEN market.yes_token.best_ask_size ELSE None,
      no_size     |-> IF with_quotes THEN market.no_token.best_ask_size ELSE None,
      sum_cost    |-> sum_cost,
      edge        |-> edge,
      cost_buffer |-> c.cost_buffer ]

\* A variant of the edge that forgets the fee.
EdgeOf_without_fee(sum_cost, c) ==
    One - sum_cost - c.cost_buffer

\* A variant of the edge that does not take the cost buffer off.
EdgeOf_without_buffer(sum_cost, c) ==
    One - sum_cost - MulRate(sum_cost, c.fee_rate)

EdgeOf(sum_cost, c) ==
    One - sum_cost - MulRate(sum_cost, c.fee_rate) - c.cost_buffer

\* A variant of evaluate that looks at the cooldown before in_flight.
evaluate_cooldown_first(market, t, flight, cds, c) ==
    IF ~market.active
    THEN MakeSignal(market, t, "SKIP_MARKET_INACTIVE", FALSE, None, None, c)
    ELSE IF ~has_valid_quotes(market)
    THEN MakeSignal(market, t, "SKIP_NO_QUOTES", TRUE, None, None, c)
    ELSE IF t < cds[market.market_id]
    THEN MakeSignal(market, t, "SKIP_IN_COOLDOWN", TRUE, sum_ask_cost(market), None, c)
    ELSE IF market.market_id \in flight
    THEN MakeSignal(market, t, "SKIP_IN_FLIGHT", TRUE, sum_ask_cost(market), None, c)
    ELSE LET sum_cost == sum_ask_cost(market)
             edge     == EdgeOf(sum_cost, c)
         IN  IF edge < c.min_edge
             THEN MakeSignal(market, t, "SKIP_INSUFFICIENT_EDGE", TRUE, sum_cost, edge, c)
             ELSE IF min_available_size(market) < c.min_depth
             THEN MakeSignal(market, t, "SKIP_INSUFFICIENT_DEPTH", TRUE, sum_cost, edge, c)
             ELSE MakeSignal(market, t, "TRADE", TRUE, sum_cost, edge, c)

\* A variant of evaluate whose cooldown still holds at its deadline.
evaluate_cooldown_inclusive(market, t, flight, cds, c) ==
    IF ~market.active
    THEN MakeSignal(market, t, "SKIP_MARKET_INACTIVE", FALSE, None, None, c)
    ELSE IF ~has_valid_quotes(market)
    THEN MakeSignal(market, t, "SKIP_NO_QUOTES", TRUE, None, None, c)
    ELSE IF market.market_id \in flight
    THEN MakeSignal(market, t, "SKIP_IN_FLIGHT", TRUE, sum_ask_cost(market), None, c)
    ELSE IF t <= cds[market.market_id]
    THEN MakeSignal(market, t, "SKIP_IN_COOLDOWN", TRUE, sum_ask_cost(market), None, c)
    ELSE LET sum_cost == sum_ask_cost(market)
             edge     == EdgeOf(sum_cost, c)
         IN  IF edge < c.min_edge
             THEN MakeSignal(market, t, "SKIP_INSUFFICIENT_EDGE", TRUE, sum_cost, edge, c)
             ELSE IF min_available_size(market) < c.min_depth
             THEN MakeSignal(market, t, "SKIP_INSUFFICIENT_DEPTH", TRUE, sum_cost, edge, c)
             ELSE MakeSignal(market, t, "TRADE", TRUE, sum_cost, edge, c)

\* SignalEngine.evaluate: the gates in the order of the code.
evaluate(market, t, flight, cds, c) ==
    IF ~market.active
    THEN MakeSignal(market, t, "SKIP_MARKET_INACTIVE", FALSE, None, None, c)
    ELSE IF ~has_valid_quotes(market)
    THEN MakeSignal(market, t, "SKIP_NO_QUOTES", TRUE, None, None, c)
    ELSE IF market.market_id \in flight
    THEN MakeSignal(market, t, "SKIP_IN_FLIGHT", TRUE, sum_ask_cost(market), None, c)
    ELSE IF t < cds[market.market_id]
    THEN MakeSignal(market, t, "SKIP_IN_COOLDOWN", TRUE, sum_ask_cost(market), None, c)
    ELSE LET sum_cost == sum_ask_cost(market)
             edge     == EdgeOf(sum_cost, c)
         IN  IF edge < c.min_edge
             THEN MakeSignal(market, t, "SKIP_INSUFFICIENT_EDGE", TRUE, sum_cost, edge, c)
             ELSE IF min_available_size(market) < c.min_depth
             THEN MakeSignal(market, t, "SKIP_INSUFFICIENT_DEPTH", TRUE, sum_cost, edge, c)
             ELSE MakeSignal(market, t, "TRADE", TRUE, sum_cost, edge, c)

NoSignal ==
    [ market_id |-> "none", timestamp |-> None, decision |-> "NONE",
      yes_ask |-> None, no_ask |-> None, yes_size |-> None, no_size |-> None,
      sum_cost |-> None, edge |-> None, cost_buffer |-> None ]

---------------------------------------------------------------------------
(* Order-book updates *)

NoMarket == "None"

\* A variant of the token book update that keeps the quote of a side the
\* snapshot has no level for.
ApplySnapshot_keeping_side(token, snap) ==
    [ token EXCEPT
        !.best_ask_price = IF snap.asks # << >> THEN snap.asks[1].price ELSE @,
        !.best_ask_size  = IF snap.asks # << >> THEN snap.asks[1].size ELSE @,
        !.best_bid_price = IF snap.bids # << >> THEN snap.bids[1].price ELSE @,
        !.best_bid_size  = IF snap.bids # << >> THEN snap.bids[1].size ELSE @,
        !.last_update    = snap.timestamp,
        !.sequence       = snap.sequence ]

ApplySnapshot(token, snap) ==
    [ token EXCEPT
        !.best_ask_price = IF snap.asks # << >> THEN snap.asks[1].price ELSE None,
        !.best_ask_size  = IF snap.asks # << >> THEN snap.asks[1].size ELSE None,
        !.best_bid_price = IF snap.bids # << >> THEN snap.bids[1].price ELSE None,
        !.best_bid_size  = IF snap.bids # << >> THEN snap.bids[1].size ELSE None,
        !.last_update    = snap.timestamp,
        !.sequence       = snap.sequence ]

\* OrderBookState.update_from_snapshot: the market_id returned and the map after.
update_from_snapshot(mkts, t2m, snap) ==
    LET unknown == [ market_id |-> NoMarket, markets |-> mkts ]
    IN  IF snap.token_id \notin DOMAIN t2m THEN unknown
        ELSE LET m == t2m[snap.token_id]
             IN  IF m \notin DOMAIN mkts THEN unknown
                 ELSE IF snap.token_id = mkts[m].yes_token.token_id
                 THEN [ market_id |-> m,
                        markets   |-> [mkts EXCEPT ![m].yes_token = ApplySnapshot(@, snap)] ]
                 ELSE IF snap.token_id = mkts[m].no_token.token_id
                 THEN [ market_id |-> m,
                        markets   |-> [mkts EXCEPT ![m].no_token = ApplySnapshot(@, snap)] ]
                 ELSE unknown

---------------------------------------------------------------------------
(* The mutable state of signal engine, execution engine, kill switch,      *)
(* ledger and adapter, as one record: the synchronous code between two     *)
(* awaits is a function from this record to this record.                   *)

NoAttempt ==
    [ market_id   |-> "none", tradeset_id |-> 0,
      yes_ask     |-> None,   no_ask      |-> None,
      yes_status  |-> "NoOrder", no_status |-> "NoOrder",
      start_time  |-> None,
      pfp_yes     |-> "NoOrder", pfp_no   |-> "NoOrder" ]

Cur ==
    [ in_flight      |-> in_flight,      cooldowns      |-> cooldowns,
      exec_state     |-> exec_state,     halted         |-> halted,
      state_log      |-> state_log,
      daily_notional |-> daily_notional, open_positions |-> open_positions,
      ks             |-> ks,             opportunities  |-> opportunities,
      tradesets      |-> tradesets,      orders         |-> orders,
      risk_events    |-> risk_events,    adapter_calls  |-> adapter_calls,
      pc             |-> pc,             att            |-> att,
      uuid           |-> << >> ]   \* what uuid4() returns during the handler

Set(s) ==
    /\ in_flight' = s.in_flight
    /\ cooldowns' = s.cooldowns
    /\ exec_state' = s.exec_state
    /\ state_log' = s.state_log
    /\ halted' = s.halted
    /\ daily_notional' = s.daily_notional
    /\ open_positions' = s.open_positions
    /\ ks' = s.ks
    /\ opportunities' = s.opportunities
    /\ tradesets' = s.tradesets
    /\ orders' = s.orders
    /\ risk_events' = s.risk_events
    /\ adapter_calls' = s.adapter_calls
    /\ pc' = s.pc
    /\ att' = s.att

---------------------------------------------------------------------------
(* Ledger *)

\* The order id the venue gives the order of a leg of a tradeset.
OrderId(id, leg) == << id, leg >>

\* What uuid.uuid4().hex[:8] can return.
Uuids == {"0a", "0b"}

\* The order id _execute_paper makes up for a leg.
PaperOrderId(leg, hex) == << "paper", leg, hex >>

log_opportunity(s, sig) ==
    [ s EXCEPT !.opportunities =
        Append(@, [ market_id |-> sig.market_id, decision |-> sig.decision ]) ]

\* The columns the INSERT does not name take the defaults of the table:
\* expected_payout is 1.0, and update_tradeset has no parameter for it.
\* status_writes counts the update_tradeset calls that have set the status
\* of the row.
create_tradeset(s, m) ==
    [ s EXCEPT !.tradesets =
        Append(@, [ market_id    |-> m,    status       |-> "pending",
                    yes_order_id |-> None, no_order_id  |-> None,
                    yes_cost     |-> None, no_cost      |-> None,
                    total_fees   |-> None, realized_pnl |-> None,
                    expected_payout |-> One, status_writes |-> 0 ]) ]

\* update_tradeset(tradeset_id, status=...)
update_tradeset_status(s, id, status) ==
    [ s EXCEPT !.tradesets[id].status = status,
               !.tradesets[id].status_writes = @ + 1 ]

\* update_tradeset(tradeset_id, status="filled", order ids, costs, fees, pnl)
update_tradeset_filled(s, id, yes_order_id, no_order_id, yes_cost, no_cost, total_fees, pnl) ==
    [ s EXCEPT !.tradesets[id] =
        [ @ EXCEPT !.status = "filled",
                   !.status_writes = @ + 1,
                   !.yes_order_id = yes_order_id,
                   !.no_order_id = no_order_id,
                   !.yes_cost = yes_cost, !.no_cost = no_cost,
                   !.total_fees = total_fees, !.realized_pnl = pnl ] ]

log_order(s, order_id, id, m, leg, price, size, status) ==
    [ s EXCEPT !.orders =
        Append(@, [ order_id |-> order_id, tradeset_id |-> id,
                    market_id |-> m, side |-> "BUY", price |-> price,
                    size |-> size, status |-> status ]) ]

log_risk_event(s, event_type, m) ==
    [ s EXCEPT !.risk_events =
        Append(@, [ event_type |-> event_type, market_id |-> m,
                    created_at |-> now ]) ]

\* get_risk_events_count(hours=1)[event_type]
risk_events_count(events, event_type) ==
    Cardinality({ i \in DOMAIN events :
                    /\ events[i].event_type = event_type
                    /\ events[i].created_at > now - HourTicks })

---------------------------------------------------------------------------
(* Kill switch *)

NoTrigger == [ triggered |-> FALSE, reason |-> "None", time |-> "None" ]

halt(s) == [ s EXCEPT !.halted = TRUE ]

\* A variant of _trigger without the early return of a latched switch.
trigger_when_latched(s, reason) ==
    halt(log_risk_event(
        [ s EXCEPT !.ks = [ triggered |-> TRUE, reason |-> reason,
                            time |-> "set" ] ],
        "kill_switch", NoMarket))

\* KillSwitch._trigger, with halt_callback = executor.halt
trigger(s, reason) ==
    IF s.ks.triggered THEN s
    ELSE halt(log_risk_event(
            [ s EXCEPT !.ks = [ triggered |-> TRUE, reason |-> reason,
                                time |-> "set" ] ],
            "kill_switch", NoMarket))

\* KillSwitch.check_conditions: the reason it triggers for, "None" when it
\* returns False.
check_conditions_reason(s) ==
    IF risk_events_count(s.risk_events, "partial_fill")
          >= cfg.max_partial_fills_per_hour
    THEN "partial_fills"
    ELSE IF risk_events_count(s.risk_events, "reject") >= cfg.max_rejects_per_hour
    THEN "rejects"
    ELSE IF risk_events_count(s.risk_events, "ws_disconnect")
               >= cfg.max_ws_disconnects_per_hour
    THEN "ws_disconnects"
    ELSE "None"

---------------------------------------------------------------------------
(* Execution engine *)

\* A variant of _check_risk_limits that does not look at the open positions.
check_risk_limits_without_positions(s, order_size, price) ==
    LET notional == order_size * price * 2
    IN  \/ s.daily_notional + notional > cfg.max_daily_notional
        \/ risk_events_count(s.risk_events, "partial_fill")
              >= cfg.max_partial_fills_per_hour
        \/ risk_events_count(s.risk_events, "reject") >= cfg.max_rejects_per_hour
        \/ risk_events_count(s.risk_events, "ws_disconnect")
              >= cfg.max_ws_disconnects_per_hour

\* ExecutionEngine._check_risk_limits: TRUE when a limit is hit.
check_risk_limits(s, order_size, price) ==
    LET notional == order_size * price * 2
    IN  \/ s.daily_notional + notional > cfg.max_daily_notional
        \/ s.open_positions >= cfg.max_open_positions
        \/ risk_events_count(s.risk_events, "partial_fill")
              >= cfg.max_partial_fills_per_hour
        \/ risk_events_count(s.risk_events, "reject") >= cfg.max_rejects_per_hour
        \/ risk_events_count(s.risk_events, "ws_disconnect")
              >= cfg.max_ws_disconnects_per_hour

\* A variant of clear_in_flight that keeps the market.
clear_in_flight_keeping(s, m) == s

clear_in_flight(s, m) == [ s EXCEPT !.in_flight = @ \ {m} ]

\* A variant of set_in_flight that forgets the market.
set_in_flight_forgetting(s, m) == s

set_in_flight(s, m) == [ s EXCEPT !.in_flight = @ \cup {m} ]

\* A variant of set_cooldown that forgets the duration.
set_cooldown_without_duration(s, m, duration) == [ s EXCEPT !.cooldowns[m] = now ]

set_cooldown(s, m, duration) == [ s EXCEPT !.cooldowns[m] = now + duration ]

set_state(s, m, st) ==
    [ s EXCEPT !.exec_state[m] = st, !.state_log[m] = Append(@, st) ]

\* The finally block of execute_signal, up to its await of sleep(0.1).
finally_block(s) ==
    LET m == s.att.market_id
    IN  [ set_state(set_cooldown(clear_in_flight(s, m), m, cfg.cooldown),
                    m, "COOLDOWN")
          EXCEPT !.pc = "cooldown" ]

\* A variant of execute_signal that marks the tradeset failed whenever the
\* result is not a success.
attempt_returns_marking_failed(s, success) ==
    LET m == s.att.market_id
        total_price == s.att.yes_ask + s.att.no_ask
    IN  IF success
        THEN finally_block(
               [ set_state(s, m, "SUCCESS") EXCEPT
                   !.daily_notional = @ + cfg.order_size * total_price,
                   !.open_positions = @ + 1 ])
        ELSE finally_block(
               update_tradeset_status(set_state(s, m, "FAILED"),
                                      s.att.tradeset_id, "failed"))

\* A variant of execute_signal that counts the position and the notional of
\* every attempt that returns, successful or not.
attempt_returns_counting_failures(s, success) ==
    LET m == s.att.market_id
        total_price == s.att.yes_ask + s.att.no_ask
    IN  finally_block(
          [ set_state(s, m, IF success THEN "SUCCESS" ELSE "FAILED") EXCEPT
              !.daily_notional = @ + cfg.order_size * total_price,
              !.open_positions = @ + 1 ])

\* execute_signal after _execute_paper/_execute_live has returned a result.
attempt_returns(s, success) ==
    LET m == s.att.market_id
        total_price == s.att.yes_ask + s.att.no_ask
    IN  IF success
        THEN finally_block(
               [ set_state(s, m, "SUCCESS") EXCEPT
                   !.daily_notional = @ + cfg.order_size * total_price,
                   !.open_positions = @ + 1 ])
        ELSE finally_block(set_state(s, m, "FAILED"))

\* execute_signal's "except Exception" branch.
attempt_raises(s) ==
    LET m == s.att.market_id
    IN  finally_block(
          log_risk_event(
            update_tradeset_status(set_state(s, m, "FAILED"),
                                   s.att.tradeset_id, "failed"),
            "execution_error", m))

adapter_call(s, op, leg) ==
    [ s EXCEPT !.adapter_calls =
        Append(@, [ op |-> op, leg |-> leg, ts |-> s.att.tradeset_id,
                    resp |-> "awaiting" ]) ]

adapter_response(s, resp) ==
    [ s EXCEPT !.adapter_calls[Len(s.adapter_calls)].resp = resp ]

\* _handle_partial_fill after both cancels: the status update, the halt and
\* the return through _execute_live into execute_signal.
partial_fill_finish(s) ==
    LET u == update_tradeset_status(s, s.att.tradeset_id, "partial_fill")
    IN  attempt_returns(IF cfg.halt_on_partial_fill THEN halt(u) ELSE u, FALSE)

\* _handle_partial_fill from its second "if" on.
partial_fill_cancel_no(s) ==
    IF s.att.pfp_no \in Cancelable
    THEN [ adapter_call(s, "cancel", "NO") EXCEPT !.pc = "cancel_no" ]
    ELSE partial_fill_finish(s)

\* _handle_partial_fill(market_id, tradeset_id, yes_order, no_order): the
\* orders are given by their last known status, "NoOrder" for None.
handle_partial_fill(s, yes_order, no_order) ==
    LET e == [ set_state(s, s.att.market_id, "PARTIAL_FILL_PROTECT")
               EXCEPT !.att.pfp_yes = yes_order, !.att.pfp_no = no_order ]
    IN  IF yes_order \in Cancelable
        THEN [ adapter_call(e, "cancel", "YES") EXCEPT !.pc = "cancel_yes" ]
        ELSE partial_fill_cancel_no(e)

\* A variant of _execute_paper that charges the fee of the YES leg only.
execute_paper_one_fee(s) ==
    LET id    == s.att.tradeset_id
        m     == s.att.market_id
        size  == cfg.order_size
        yes_cost == size * s.att.yes_ask
        no_cost  == size * s.att.no_ask
        total_fees == MulRate(size * s.att.yes_ask, cfg.fee_rate)
        expected_payout == size * One
        pnl == expected_payout - yes_cost - no_cost - total_fees
        yes_order_id == PaperOrderId("YES", s.uuid[1])
        no_order_id  == PaperOrderId("NO", s.uuid[2])
        logged == log_order(log_order(s, yes_order_id, id, m, "YES",
                                      s.att.yes_ask, size, "FILLED"),
                            no_order_id, id, m, "NO", s.att.no_ask, size, "FILLED")
    IN  attempt_returns(
          update_tradeset_filled(logged, id, yes_order_id, no_order_id,
                                 yes_cost, no_cost, total_fees, pnl),
          TRUE)

\* _execute_paper
execute_paper(s) ==
    LET id    == s.att.tradeset_id
        m     == s.att.market_id
        size  == cfg.order_size
        yes_cost == size * s.att.yes_ask
        no_cost  == size * s.att.no_ask
        total_fees == MulRate(size * s.att.yes_ask, cfg.fee_rate)
                      + MulRate(size * s.att.no_ask, cfg.fee_rate)
        expected_payout == size * One
        pnl == expected_payout - yes_cost - no_cost - total_fees
        yes_order_id == PaperOrderId("YES", s.uuid[1])
        no_order_id  == PaperOrderId("NO", s.uuid[2])
        logged == log_order(log_order(s, yes_order_id, id, m, "YES",
                                      s.att.yes_ask, size, "FILLED"),
                            no_order_id, id, m, "NO", s.att.no_ask, size, "FILLED")
    IN  attempt_returns(
          update_tradeset_filled(logged, id, yes_order_id, no_order_id,
                                 yes_cost, no_cost, total_fees, pnl),
          TRUE)

\* A variant of execute_signal that skips a trade over a risk limit
\* without recording it.
execute_signal_skipping_silently(s, sig) ==
    LET m == sig.market_id
        total_price == sig.yes_ask + sig.no_ask
    IN  IF s.halted THEN s
        ELSE IF sig.decision # "TRADE" THEN s
        ELSE IF check_risk_limits(s, cfg.order_size, total_price)
        THEN s
        ELSE LET a == set_in_flight(set_state(s, m, "SIGNAL_DETECTED"), m)
                 b == create_tradeset(a, m)
                 c == [ set_state(b, m, "PLACING_ORDERS") EXCEPT
                          !.att = [ NoAttempt EXCEPT
                                      !.market_id = m,
                                      !.tradeset_id = Len(b.tradesets),
                                      !.yes_ask = sig.yes_ask,
                                      !.no_ask = sig.no_ask ] ]
             IN  IF cfg.paper_mode
                 THEN execute_paper(c)
                 ELSE [ adapter_call(c, "place", "YES") EXCEPT !.pc = "place_yes" ]

\* execute_signal(signal, market) up to its first await.
execute_signal(s, sig) ==
    LET m == sig.market_id
        total_price == sig.yes_ask + sig.no_ask
    IN  IF s.halted THEN s
        ELSE IF sig.decision # "TRADE" THEN s
        ELSE IF check_risk_limits(s, cfg.order_size, total_price)
        THEN log_risk_event(s, "risk_limit", m)
        ELSE LET a == set_in_flight(set_state(s, m, "SIGNAL_DETECTED"), m)
                 b == create_tradeset(a, m)
                 c == [ set_state(b, m, "PLACING_ORDERS") EXCEPT
                          !.att = [ NoAttempt EXCEPT
                                      !.market_id = m,
                                      !.tradeset_id = Len(b.tradesets),
                                      !.yes_ask = sig.yes_ask,
                                      !.no_ask = sig.no_ask ] ]
             IN  IF cfg.paper_mode
                 THEN execute_paper(c)
                 ELSE [ adapter_call(c, "place", "YES") EXCEPT !.pc = "place_yes" ]

\* A variant of the wait loop that never gives up.
wait_loop_without_timeout(s) == [ s EXCEPT !.pc = "wait_fills" ]

\* The while condition of _execute_live's wait loop, and what follows it.
wait_loop(s) ==
    IF now - s.att.start_time < cfg.order_timeout
    THEN [ s EXCEPT !.pc = "wait_fills" ]
    ELSE handle_partial_fill(s, s.att.yes_status, s.att.no_status)

\* A variant of yes_placed that goes on to the NO leg after a rejection.
yes_placed_ignoring_reject(s0, resp) ==
    LET s  == adapter_response(s0, resp)
        id == s.att.tradeset_id
        m  == s.att.market_id
    IN  IF resp = "raise"
        THEN attempt_returns(update_tradeset_status(s, id, "failed"), FALSE)
        ELSE [ adapter_call([ log_order(s, OrderId(id, "YES"), id, m, "YES", s.att.yes_ask,
                                        cfg.order_size, resp)
                              EXCEPT !.att.yes_status = resp ],
                            "place", "NO")
               EXCEPT !.pc = "place_no" ]

\* _execute_live when place_order(YES) has returned an order with status
\* resp, or has raised (resp = "raise").
yes_placed(s0, resp) ==
    LET s  == adapter_response(s0, resp)
        id == s.att.tradeset_id
        m  == s.att.market_id
    IN  IF resp = "raise"
        THEN attempt_returns(update_tradeset_status(s, id, "failed"), FALSE)
        ELSE LET logged == [ log_order(s, OrderId(id, "YES"), id, m, "YES", s.att.yes_ask,
                                       cfg.order_size, resp)
                             EXCEPT !.att.yes_status = resp ]
             IN  IF resp = "REJECTED"
                 THEN attempt_returns(
                        update_tradeset_status(
                          log_risk_event(logged, "reject", m), id, "failed"),
                        FALSE)
                 ELSE [ adapter_call(logged, "place", "NO")
                        EXCEPT !.pc = "place_no" ]

\* A variant of no_placed that records no reject event for a rejected NO
\* leg.
no_placed_without_reject_event(s0, resp) ==
    LET s  == adapter_response(s0, resp)
        id == s.att.tradeset_id
        m  == s.att.market_id
    IN  IF resp = "raise"
        THEN handle_partial_fill(s, s.att.yes_status, "NoOrder")
        ELSE LET logged == [ log_order(s, OrderId(id, "NO"), id, m, "NO", s.att.no_ask,
                                       cfg.order_size, resp)
                             EXCEPT !.att.no_status = resp ]
             IN  IF resp = "REJECTED"
                 THEN handle_partial_fill(logged, logged.att.yes_status, "NoOrder")
                 ELSE wait_loop([ set_state(logged, m, "WAITING_FILLS")
                                  EXCEPT !.att.start_time = now ])

\* _execute_live when place_order(NO) has returned or raised.
no_placed(s0, resp) ==
    LET s  == adapter_response(s0, resp)
        id == s.att.tradeset_id
        m  == s.att.market_id
    IN  IF resp = "raise"
        THEN handle_partial_fill(s, s.att.yes_status, "NoOrder")
        ELSE LET logged == [ log_order(s, OrderId(id, "NO"), id, m, "NO", s.att.no_ask,
                                       cfg.order_size, resp)
                             EXCEPT !.att.no_status = resp ]
             IN  IF resp = "REJECTED"
                 THEN handle_partial_fill(log_risk_event(logged, "reject", m),
                                          logged.att.yes_status, "NoOrder")
                 ELSE wait_loop([ set_state(logged, m, "WAITING_FILLS")
                                  EXCEPT !.att.start_time = now ])

\* One round of the wait loop: get_order_status returned yes_status and
\* no_status ("NoOrder" for None).  A filled order carries what the mock
\* venue fills: the whole size at the limit price, fee at fee_rate.
poll(s0, yes_status, no_status) ==
    LET s == [ s0 EXCEPT
                 !.att.yes_status = IF yes_status # "NoOrder" THEN yes_status ELSE @,
                 !.att.no_status  = IF no_status # "NoOrder" THEN no_status ELSE @ ]
        id   == s.att.tradeset_id
        m    == s.att.market_id
        size == cfg.order_size
        yes_cost == size * s.att.yes_ask
        no_cost  == size * s.att.no_ask
        total_fees == MulRate(size * s.att.yes_ask, cfg.fee_rate)
                      + MulRate(size * s.att.no_ask, cfg.fee_rate)
        expected_payout == Min(size, size) * One
        pnl == expected_payout - yes_cost - no_cost - total_fees
    IN  IF s.att.yes_status = "FILLED" /\ s.att.no_status = "FILLED"
        THEN attempt_returns(
               update_tradeset_filled(s, id, OrderId(id, "YES"), OrderId(id, "NO"),
                                      yes_cost, no_cost, total_fees, pnl),
               TRUE)
        ELSE IF s.att.yes_status = "PARTIALLY_FILLED"
                \/ s.att.no_status = "PARTIALLY_FILLED"
        THEN handle_partial_fill(log_risk_event(s, "partial_fill", m),
                                 s.att.yes_status, s.att.no_status)
        ELSE wait_loop(s)

---------------------------------------------------------------------------
(* Orchestrator *)

\* ArbBot._on_book_update with the market update_from_snapshot returned.
on_book_update(s, mkts, m) ==
    LET reason == check_conditions_reason(s)
    IN  IF reason # "None"
        THEN [ state |-> trigger(s, reason), signal |-> last_signal ]
        ELSE LET sig    == evaluate(mkts[m], now, s.in_flight, s.cooldowns, cfg)
                 logged == log_opportunity(s, sig)
             IN  [ state  |-> IF sig.decision = "TRADE" /\ ~logged.halted
                              THEN execute_signal(logged, sig)
                              ELSE logged,
                   signal |-> sig ]

\* OrderBookState.register_market
register_market(b, m, yes_token_id, no_token_id) ==
    [ markets |->
        [ x \in DOMAIN b.markets \cup {m} |->
            IF x = m THEN NewMarketBook(m, yes_token_id, no_token_id)
            ELSE b.markets[x] ],
      token_to_market |->
        [ t \in DOMAIN b.token_to_market \cup {yes_token_id, no_token_id} |->
            IF t \in {yes_token_id, no_token_id} THEN m
            ELSE b.token_to_market[t] ] ]

EmptyBook == [ markets |-> << >>, token_to_market |-> << >> ]

\* ArbBot.start: the markets registered before the first book update.
StartBook ==
    register_market(register_market(EmptyBook, "m1", YesToken("m1"), NoToken("m1")),
                    "m2", YesToken("m2"), NoToken("m2"))

---------------------------------------------------------------------------
(* WebSocket connection of the adapter *)

\* WebSocketConfig, in seconds.
reconnect_delay_initial == 1

reconnect_delay_max == 60

reconnect_backoff_factor == 2

\* The adapter after connect_ws; reconnects holds the time of each
\* reconnect since then.
StartWs ==
    [ connected |-> TRUE, reconnect_delay |-> reconnect_delay_initial,
      reconnects |-> << >> ]

---------------------------------------------------------------------------
(* Bounds and inputs *)

\* Snapshots the adapter delivers in one run.
MaxSnapshots == 3

\* Tradesets the ledger holds at most: a snapshot that would start one more
\* attempt is not delivered.
MaxTradesets == 1

\* The last tick of the clock.
MaxNow == 2

\* kill_switch events in the ledger beyond which the operator no longer
\* calls manual_trigger on a kill switch that is not latched.
MaxKillEvents == 1

\* What place_order and get_order_status answer ("raise": an exception,
\* "NoOrder": None).
PlaceResponses ==
    {"PENDING", "FILLED", "PARTIALLY_FILLED", "REJECTED", "EXPIRED", "raise"}

PollResponses == {"OPEN", "FILLED", "PARTIALLY_FILLED", "CANCELLED", "NoOrder"}

Levels(prices, sizes) ==
    { << >> } \cup { << [ price |-> p, size |-> z ] >> : p \in prices, z \in sizes }

\* The snapshots the adapter delivers to the pipeline: asks only, no
\* sequence number.
Snapshot(t, a) ==
    [ token_id |-> t, bids |-> << >>, asks |-> a, timestamp |-> 0,
      sequence |-> None ]

\* The adapter is subscribed to the tokens of market m1; it also delivers
\* a snapshot of a token the order book does not know.
PipelineSnapshots ==
    { Snapshot(t, a) : t \in {"y1", "n1"}, a \in Levels({4800, 5000}, {10}) }
    \cup { Snapshot(UnknownToken, << >>) }

---------------------------------------------------------------------------
(* The pipeline *)

\* Signal engine, execution engine, kill switch, ledger and adapter after
\* their construction.
StartEngine ==
    /\ now = 0
    /\ in_flight = {}
    /\ cooldowns = [ m \in Markets |-> 0 ]
    /\ last_signal = NoSignal
    /\ exec_state = [ m \in Markets |-> "IDLE" ]
    /\ state_log = [ m \in Markets |-> << "IDLE" >> ]
    /\ halted = FALSE
    /\ daily_notional = 0
    /\ open_positions = 0
    /\ ks = NoTrigger
    /\ opportunities = << >>
    /\ tradesets = << >>
    /\ orders = << >>
    /\ risk_events = << >>
    /\ ledger_open = TRUE
    /\ adapter_calls = << >>
    /\ pc = "idle"
    /\ att = NoAttempt
    /\ running = TRUE
    /\ cancelling = FALSE
    /\ delivered = 0
    /\ returned = "none"
    /\ ws = StartWs

\* The state after ArbBot.start, whatever the configuration.
Start ==
    /\ markets = StartBook.markets
    /\ token_to_market = StartBook.token_to_market
    /\ StartEngine

Init ==
    /\ cfg \in PipelineConfigs
    /\ Start

\* The adapter's task delivers one of the snapshots and awaits the callback;
\* a run delivers at most max_snapshots snapshots and creates at most
\* max_tradesets tradesets.
DeliverWithin(snapshots, max_tradesets, max_snapshots) ==
    /\ pc = "idle"
    /\ running
    /\ delivered < max_snapshots
    /\ \E snap \in snapshots :
         LET r == update_from_snapshot(markets, token_to_market, snap)
         IN  IF r.market_id = NoMarket
             THEN UNCHANGED vars
             ELSE \E u \in Uuids \X Uuids :
                  LET out == on_book_update([ Cur EXCEPT !.uuid = u ],
                                            r.markets, r.market_id)
                  IN  /\ Len(out.state.tradesets) <= max_tradesets
                      /\ markets' = r.markets
                      /\ delivered' = delivered + 1
                      /\ last_signal' = out.signal
                      /\ Set(out.state)
                      /\ UNCHANGED << cfg, now, token_to_market, ledger_open,
                                      running, cancelling, returned, ws >>

DeliverUpTo(snapshots, max_tradesets) == DeliverWithin(snapshots, max_tradesets, MaxSnapshots)

Deliver(snapshots) == DeliverUpTo(snapshots, MaxTradesets)

BookUpdate == Deliver(PipelineSnapshots)

YesPlaced ==
    /\ pc = "place_yes"
    /\ \E resp \in PlaceResponses : Set(yes_placed(Cur, resp))
    /\ UNCHANGED << cfg, now, markets, token_to_market, last_signal,
                    ledger_open, running, cancelling, delivered, returned, ws >>

NoPlaced ==
    /\ pc = "place_no"
    /\ \E resp \in PlaceResponses : Set(no_placed(Cur, resp))
    /\ UNCHANGED << cfg, now, markets, token_to_market, last_signal,
                    ledger_open, running, cancelling, delivered, returned, ws >>

Poll ==
    /\ pc = "wait_fills"
    /\ \E ys \in PollResponses, ns \in PollResponses :
         Set(poll(Cur, ys, ns))
    /\ UNCHANGED << cfg, now, markets, token_to_market, last_signal,
                    ledger_open, running, cancelling, delivered, returned, ws >>

\* get_order_status raises: the exception leaves _execute_live.
PollRaises ==
    /\ pc = "wait_fills"
    /\ Set(attempt_raises(
             adapter_response(adapter_call(Cur, "status", "YES"), "raise")))
    /\ UNCHANGED << cfg, now, markets, token_to_market, last_signal,
                    ledger_open, running, cancelling, delivered, returned, ws >>

\* cancel_order(YES) returns or raises: either way the code goes on.
CancelYesDone ==
    /\ pc = "cancel_yes"
    /\ \E resp \in {"ok", "raise"} :
         Set(partial_fill_cancel_no(adapter_response(Cur, resp)))
    /\ UNCHANGED << cfg, now, markets, token_to_market, last_signal,
                    ledger_open, running, cancelling, delivered, returned, ws >>

CancelNoDone ==
    /\ pc = "cancel_no"
    /\ \E resp \in {"ok", "raise"} :
         Set(partial_fill_finish(adapter_response(Cur, resp)))
    /\ UNCHANGED << cfg, now, markets, token_to_market, last_signal,
                    ledger_open, running, cancelling, delivered, returned, ws >>

\* The sleep(0.1) of the finally block is over.
CooldownDone ==
    /\ pc = "cooldown"
    /\ ~cancelling
    /\ exec_state' = [ exec_state EXCEPT ![att.market_id] = "IDLE" ]
    /\ state_log' = [ state_log EXCEPT ![att.market_id] = Append(@, "IDLE") ]
    /\ pc' = "idle"
    /\ att' = NoAttempt
    /\ UNCHANGED << cfg, now, markets, token_to_market, in_flight, cooldowns,
                    last_signal, halted, daily_notional, open_positions, ks,
                    opportunities, tradesets, orders, risk_events, ledger_open,
                    adapter_calls, running, cancelling, delivered, returned, ws >>

\* Time passes while the pipeline task sleeps: between two snapshots and
\* in the wait loop.
Tick ==
    /\ pc \in {"idle", "wait_fills"}
    /\ now < MaxNow
    /\ now' = now + 1
    /\ UNCHANGED << cfg, markets, token_to_market, in_flight, cooldowns,
                    last_signal, exec_state, state_log, halted, daily_notional,
                    open_positions, ks, opportunities, tradesets, orders,
                    risk_events, ledger_open, adapter_calls, pc, att, running,
                    cancelling, delivered, returned, ws >>

\* The kill_switch rows of the ledger.
KillEvents ==
    Cardinality({ i \in DOMAIN risk_events :
                    risk_events[i].event_type = "kill_switch" })

\* Operator: KillSwitch.manual_trigger().  The operator's calls are taken
\* between two callbacks of the pipeline.
ManualTrigger ==
    /\ running
    /\ pc = "idle"
    /\ ks.triggered \/ KillEvents < MaxKillEvents
    /\ Set(trigger(Cur, "Manual trigger"))
    /\ UNCHANGED << cfg, now, markets, token_to_market, last_signal,
                    ledger_open, running, cancelling, delivered, returned, ws >>

\* A variant of reset that resumes the execution engine as well.
reset_resuming(s) ==
    IF s.ks.triggered THEN [ s EXCEPT !.ks = NoTrigger, !.halted = FALSE ] ELSE s

\* KillSwitch.reset: clears the latch, its reason and its time.
reset(s) == IF s.ks.triggered THEN [ s EXCEPT !.ks = NoTrigger ] ELSE s

\* Operator: KillSwitch.reset()
Reset ==
    /\ running
    /\ pc = "idle"
    /\ ks' = reset(Cur).ks
    /\ halted' = reset(Cur).halted
    /\ UNCHANGED << cfg, now, markets, token_to_market, in_flight, cooldowns,
                    last_signal, exec_state, state_log, daily_notional,
                    open_positions, opportunities, tradesets, orders,
                    risk_events, ledger_open, adapter_calls, pc, att, running,
                    cancelling, delivered, returned, ws >>

\* Operator: ExecutionEngine.resume()
Resume ==
    /\ running
    /\ pc = "idle"
    /\ halted' = FALSE
    /\ UNCHANGED << cfg, now, markets, token_to_market, in_flight, cooldowns,
                    last_signal, exec_state, state_log, daily_notional, open_positions,
                    ks, opportunities, tradesets, orders, risk_events,
                    ledger_open, adapter_calls, pc, att, running, cancelling,
                    delivered, returned, ws >>

\* The program as it runs: nothing in it calls manual_trigger, reset or
\* resume.
Next ==
    \/ BookUpdate
    \/ YesPlaced
    \/ NoPlaced
    \/ Poll
    \/ PollRaises
    \/ CancelYesDone
    \/ CancelNoDone
    \/ CooldownDone
    \/ Tick

Spec == Init /\ [][Next]_vars

\* The program when every awaited adapter call returns or raises, every
\* sleep ends and the clock goes on.
Fairness ==
    /\ WF_vars(YesPlaced)
    /\ WF_vars(NoPlaced)
    /\ WF_vars(Poll \/ PollRaises)
    /\ WF_vars(CancelYesDone)
    /\ WF_vars(CancelNoDone)
    /\ WF_vars(CooldownDone)
    /\ WF_vars(Tick)

\* The snapshots that make market m1 tradeable.
FairSnapshots == { Snapshot(t, a) : t \in {"y1", "n1"}, a \in Levels({4800}, {10}) }

BookUpdateFair == Deliver(FairSnapshots)

FairConfigs == { [BaseConfig EXCEPT !.paper_mode = p] : p \in BOOLEAN }

InitFair ==
    /\ cfg \in FairConfigs
    /\ Start

NextFair ==
    \/ BookUpdateFair
    \/ YesPlaced
    \/ NoPlaced
    \/ Poll
    \/ PollRaises
    \/ CancelYesDone
    \/ CancelNoDone
    \/ CooldownDone
    \/ Tick

SpecFair == InitFair /\ [][NextFair]_vars /\ Fairness

\* The program with an operator who calls the kill switch's and the
\* engine's public methods.
NextOps ==
    \/ Next
    \/ ManualTrigger
    \/ Reset
    \/ Resume

SpecOps == Init /\ [][NextOps]_vars

---------------------------------------------------------------------------
(* Shutdown *)

AwaitingAdapter == {"place_yes", "place_no", "cancel_yes", "cancel_no"}

\* A variant of the cancellation in which the "except Exception" around
\* the NO placement catches CancelledError and protects the YES leg.
task_cancelled_caught_at_no_leg(s) ==
    IF s.pc = "place_no"
    THEN no_placed(s, "raise")
    ELSE finally_block(IF s.pc \in {"place_yes", "cancel_yes", "cancel_no"}
                       THEN adapter_response(s, "cancelled")
                       ELSE s)

\* CancelledError is thrown into the pipeline task at the await it is
\* suspended in.  It is not an Exception: no "except Exception" of
\* _execute_live, _handle_partial_fill or execute_signal catches it, and the
\* finally block of execute_signal runs.
task_cancelled(s) ==
    finally_block(IF s.pc \in AwaitingAdapter
                  THEN adapter_response(s, "cancelled")
                  ELSE s)

\* ArbBot.stop up to its await of the pipeline task: _running is cleared
\* and disconnect_ws cancels the task.
Stop ==
    /\ running
    /\ running' = FALSE
    /\ IF pc = "idle"
       THEN /\ pc' = "stopped"
            /\ UNCHANGED << in_flight, cooldowns, exec_state, state_log, halted,
                            daily_notional, open_positions, ks, opportunities,
                            tradesets, orders, risk_events, adapter_calls, att,
                            cancelling >>
       ELSE IF pc = "cooldown"
       THEN /\ pc' = "stopped"
            /\ att' = NoAttempt
            /\ UNCHANGED << in_flight, cooldowns, exec_state, state_log, halted,
                            daily_notional, open_positions, ks, opportunities,
                            tradesets, orders, risk_events, adapter_calls,
                            cancelling >>
       ELSE /\ Set(task_cancelled(Cur))
            /\ cancelling' = TRUE
    /\ UNCHANGED << cfg, now, markets, token_to_market, last_signal,
                    ledger_open, delivered, returned, ws >>

\* The cancelled task finishes the sleep(0.1) of the finally block, sets
\* IDLE and ends.
Unwound ==
    /\ pc = "cooldown"
    /\ cancelling
    /\ exec_state' = [ exec_state EXCEPT ![att.market_id] = "IDLE" ]
    /\ state_log' = [ state_log EXCEPT ![att.market_id] = Append(@, "IDLE") ]
    /\ pc' = "stopped"
    /\ att' = NoAttempt
    /\ cancelling' = FALSE
    /\ UNCHANGED << cfg, now, markets, token_to_market, in_flight, cooldowns,
                    last_signal, halted, daily_notional, open_positions, ks,
                    opportunities, tradesets, orders, risk_events, ledger_open,
                    adapter_calls, running, delivered, returned, ws >>

\* run_bot's finally calls stop() a second time: the task is cancelled
\* again, in the sleep(0.1) of the finally block.
StopAgain ==
    /\ pc = "cooldown"
    /\ cancelling
    /\ pc' = "stopped"
    /\ att' = NoAttempt
    /\ cancelling' = FALSE
    /\ UNCHANGED << cfg, now, markets, token_to_market, in_flight, cooldowns,
                    last_signal, exec_state, state_log, halted, daily_notional,
                    open_positions, ks, opportunities, tradesets, orders,
                    risk_events, ledger_open, adapter_calls, running,
                    delivered, returned, ws >>

\* ArbBot.stop after the pipeline task has ended: ledger.close()
CloseLedger ==
    /\ pc = "stopped"
    /\ ledger_open
    /\ ledger_open' = FALSE
    /\ UNCHANGED << cfg, now, markets, token_to_market, in_flight, cooldowns,
                    last_signal, exec_state, state_log, halted, daily_notional,
                    open_positions, ks, opportunities, tradesets, orders,
                    risk_events, adapter_calls, pc, att, running, cancelling,
                    delivered, returned, ws >>

\* The program with a shutdown signal.
NextStop ==
    \/ Next
    \/ Stop
    \/ Unwound
    \/ StopAgain
    \/ CloseLedger

SpecStop == Init /\ [][NextStop]_vars

---------------------------------------------------------------------------
(* evaluate() alone: inputs drawn from bounded sets *)

EvalPrices == {4800, 5000}

EvalSizes == {5, 10}

EvalTokenBooks(tid) ==
    { EmptyTokenBook(tid) }
    \cup { [ EmptyTokenBook(tid) EXCEPT !.best_ask_price = p,
                                        !.best_ask_size = z, !.last_update = 0 ] :
             p \in EvalPrices, z \in EvalSizes }

EvalMarketBooks(m) ==
    { [ market_id |-> m, yes_token |-> y, no_token |-> n, active |-> a ] :
        y \in EvalTokenBooks(YesToken(m)), n \in EvalTokenBooks(NoToken(m)),
        a \in BOOLEAN }

InitEval ==
    /\ cfg \in EvalConfigs
    /\ now \in 0..MaxNow
    /\ \E mb \in EvalMarketBooks("m1") :
         markets = [ StartBook.markets EXCEPT !["m1"] = mb ]
    /\ token_to_market = StartBook.token_to_market
    /\ in_flight \in SUBSET {"m1"}
    /\ \E cd \in 0..MaxNow : cooldowns = [ m \in Markets |-> IF m = "m1" THEN cd ELSE 0 ]
    /\ last_signal = NoSignal
    /\ exec_state = [ m \in Markets |-> "IDLE" ]
    /\ state_log = [ m \in Markets |-> << "IDLE" >> ]
    /\ halted = FALSE
    /\ daily_notional = 0
    /\ open_positions = 0
    /\ ks = NoTrigger
    /\ opportunities = << >>
    /\ tradesets = << >>
    /\ orders = << >>
    /\ risk_events = << >>
    /\ ledger_open = TRUE
    /\ adapter_calls = << >>
    /\ pc = "idle"
    /\ att = NoAttempt
    /\ running = TRUE
    /\ cancelling = FALSE
    /\ delivered = 0
    /\ returned = "none"
    /\ ws = StartWs

\* One call of SignalEngine.evaluate(market).
Evaluate ==
    /\ last_signal = NoSignal
    /\ \E m \in Markets :
         last_signal' = evaluate(markets[m], now, in_flight, cooldowns, cfg)
    /\ UNCHANGED << cfg, now, markets, token_to_market, in_flight, cooldowns,
                    exec_state, state_log, halted, daily_notional, open_positions, ks,
                    opportunities, tradesets, orders, risk_events, ledger_open,
                    adapter_calls, pc, att, running, cancelling,
                    delivered, returned, ws >>

NextEval == Evaluate

SpecEval == InitEval /\ [][NextEval]_vars

---------------------------------------------------------------------------
(* Paper trading on two markets *)

\* Paper mode, with the daily notional limit at 1000 and at 10: under the
\* second, no trade of size 10 passes the risk check.
PaperConfigs ==
    { [BaseConfig EXCEPT !.max_daily_notional = n] : n \in {10000000, 100000} }

\* The adapter is subscribed to both markets: asks of 0.45 and 0.50 in
\* market m1, of 0.48 and 0.48 in market m2.
PaperSnapshots ==
    { Snapshot("y1", a) : a \in Levels({4500}, {10}) }
    \cup { Snapshot("n1", a) : a \in Levels({5000}, {10}) }
    \cup { Snapshot(t, a) : t \in {"y2", "n2"}, a \in Levels({4800}, {10}) }

InitPaper ==
    /\ cfg \in PaperConfigs
    /\ Start

BookUpdatePaper == Deliver(PaperSnapshots)

NextPaper ==
    \/ BookUpdatePaper
    \/ CooldownDone
    \/ Tick

SpecPaper == InitPaper /\ [][NextPaper]_vars

---------------------------------------------------------------------------
(* The risk limits over two attempts *)

\* Tradesets a run under the limit configurations creates.
MaxLimitTradesets == 2

\* Paper and live mode with max_open_positions at 1 and at 2, and the daily
\* notional limit at 1000 and at 25: under the second, the check lets one
\* trade of size 10 pass and refuses the next.
LimitConfigs ==
    { [BaseConfig EXCEPT !.paper_mode = p, !.max_open_positions = o,
                         !.max_daily_notional = n] :
        p \in BOOLEAN, o \in {1, 2}, n \in {10000000, 250000} }

InitLimits ==
    /\ cfg \in LimitConfigs
    /\ Start

BookUpdateLimits == DeliverUpTo(PipelineSnapshots, MaxLimitTradesets)

NextLimits ==
    \/ BookUpdateLimits
    \/ YesPlaced
    \/ NoPlaced
    \/ Poll
    \/ PollRaises
    \/ CancelYesDone
    \/ CancelNoDone
    \/ CooldownDone
    \/ Tick

SpecLimits == InitLimits /\ [][NextLimits]_vars

---------------------------------------------------------------------------
(* Two markets *)

\* Snapshots the adapter's task delivers in a run over both markets.
MaxMarketSnapshots == 4

\* The adapter is subscribed to the tokens of both markets.  In each round
\* its task goes through the markets and delivers the YES snapshot and then
\* the NO snapshot of each.
MarketCycle == << "y1", "n1", "y2", "n2" >>

\* The snapshots that may come after n delivered ones: the next token of
\* the round with one ask of 0.48 or of 0.50, for 10.
MarketSnapshots(n) ==
    { Snapshot(MarketCycle[(n % Len(MarketCycle)) + 1], a) : a \in Levels({4800, 5000}, {10}) \ { << >> } }

MarketConfigs ==
    { [BaseConfig EXCEPT !.paper_mode = p, !.max_open_positions = 2] : p \in BOOLEAN }

InitMarkets ==
    /\ cfg \in MarketConfigs
    /\ Start

BookUpdateMarkets == DeliverWithin(MarketSnapshots(delivered), MaxLimitTradesets, MaxMarketSnapshots)

NextMarkets ==
    \/ BookUpdateMarkets
    \/ YesPlaced
    \/ NoPlaced
    \/ Poll
    \/ PollRaises
    \/ CancelYesDone
    \/ CancelNoDone
    \/ CooldownDone
    \/ Tick

SpecMarkets == InitMarkets /\ [][NextMarkets]_vars

---------------------------------------------------------------------------
(* Concurrent callbacks *)

\* The snapshots of the tokens of market m.
SnapshotsOf(m) == { snap \in PipelineSnapshots : snap.token_id \in {YesToken(m), NoToken(m)} }

\* A caller that does not await the callback invokes _on_book_update for
\* the market of the attempt in progress while that attempt is suspended
\* at one of its awaits.  The callback runs up to its own first await; the
\* suspended attempt keeps its place.
ConcurrentUpdate ==
    /\ pc \notin {"idle", "stopped"}
    /\ running
    /\ delivered < MaxSnapshots
    /\ \E snap \in SnapshotsOf(att.market_id), u \in Uuids \X Uuids :
         LET r   == update_from_snapshot(markets, token_to_market, snap)
             out == on_book_update([ Cur EXCEPT !.uuid = u ], r.markets, r.market_id)
         IN  /\ Len(out.state.tradesets) <= MaxLimitTradesets
             /\ markets' = r.markets
             /\ delivered' = delivered + 1
             /\ last_signal' = out.signal
             /\ Set(out.state)
    /\ UNCHANGED << cfg, now, token_to_market, ledger_open, running, cancelling,
                    returned, ws >>

NextConc ==
    \/ Next
    \/ ConcurrentUpdate

SpecConc == Init /\ [][NextConc]_vars

---------------------------------------------------------------------------
(* The order-book state alone: register_market and update_from_snapshot    *)
(* are called in any order.                                                *)

\* The token ids markets are registered with: fewer than two markets need,
\* so that two markets share one.
BookTokens == {"y1", "n1", "y2"}

\* PolymarketAdapter._handle_book_event: the snapshot built from a book
\* message of the venue.  A level of the message is a list; one with less
\* than two entries is dropped, and prices and sizes are taken as they are.
handle_book_event(data) ==
    LET level(l) == [ price |-> l[1], size |-> l[2] ]
        parse(ls) == [ k \in 1..Len(SelectSeq(ls, LAMBDA l : Len(l) >= 2)) |->
                         level(SelectSeq(ls, LAMBDA l : Len(l) >= 2)[k]) ]
    IN  [ token_id |-> data.asset_id, bids |-> parse(data.bids),
          asks |-> parse(data.asks), timestamp |-> 0, sequence |-> data.hash ]

\* PolymarketAdapter._handle_price_change, for one entry of price_changes:
\* top of book with size 0 and no sequence.
handle_price_change(change) ==
    [ token_id |-> change.asset_id,
      bids |-> IF change.best_bid # None
               THEN << [ price |-> change.best_bid, size |-> 0 ] >> ELSE << >>,
      asks |-> IF change.best_ask # None
               THEN << [ price |-> change.best_ask, size |-> 0 ] >> ELSE << >>,
      timestamp |-> 0, sequence |-> None ]

\* The book messages of the venue: an ask of 0.48 with sequence 1, a bid of
\* 0.47 behind a malformed level with sequence 2, and an ask of 1.00
\* without a sequence.
BookMessages ==
    { [ asset_id |-> t, bids |-> m.bids, asks |-> m.asks, hash |-> m.hash ] :
        t \in BookTokens \cup {UnknownToken},
        m \in { [ bids |-> << >>, asks |-> << << 4800, 10 >> >>, hash |-> 1 ],
                [ bids |-> << << 4700 >>, << 4700, 10 >> >>, asks |-> << >>,
                  hash |-> 2 ],
                [ bids |-> << >>, asks |-> << << One, 10 >> >>, hash |-> None ] } }

\* The price changes of the venue: a best bid of 0.47.
PriceChanges ==
    { [ asset_id |-> t, best_bid |-> 4700, best_ask |-> None ] :
        t \in BookTokens }

\* The snapshots the adapter hands to update_from_snapshot.
BookSnapshots ==
    { handle_book_event(d) : d \in BookMessages }
    \cup { handle_price_change(c) : c \in PriceChanges }

InitBook ==
    /\ cfg = BaseConfig
    /\ markets = EmptyBook.markets
    /\ token_to_market = EmptyBook.token_to_market
    /\ StartEngine

\* One call of OrderBookState.register_market.
RegisterMarket ==
    /\ \E m \in Markets, y \in BookTokens, n \in BookTokens :
         LET b == register_market([ markets |-> markets,
                                    token_to_market |-> token_to_market ],
                                  m, y, n)
         IN  /\ y # n
             /\ markets' = b.markets
             /\ token_to_market' = b.token_to_market
    /\ UNCHANGED << cfg, now, in_flight, cooldowns, last_signal, exec_state, state_log,
                    halted, daily_notional, open_positions, ks, opportunities,
                    tradesets, orders, risk_events, ledger_open, adapter_calls,
                    pc, att, running, cancelling, delivered, returned, ws >>

\* One call of OrderBookState.update_from_snapshot.
UpdateFromSnapshot ==
    /\ \E snap \in BookSnapshots :
         markets' = update_from_snapshot(markets, token_to_market, snap).markets
    /\ UNCHANGED << cfg, now, token_to_market, in_flight, cooldowns,
                    last_signal, exec_state, state_log, halted, daily_notional,
                    open_positions, ks, opportunities, tradesets, orders,
                    risk_events, ledger_open, adapter_calls, pc, att, running,
                    cancelling, delivered, returned, ws >>

NextBook ==
    \/ RegisterMarket
    \/ UpdateFromSnapshot

SpecBook == InitBook /\ [][NextBook]_vars

---------------------------------------------------------------------------
(* The kill switch alone: check_conditions, manual_trigger and reset are    *)
(* called on a ledger whose risk events are logged from outside.            *)

\* The event types check_conditions counts.
CountedEvents == {"partial_fill", "reject", "ws_disconnect"}

\* Counted risk events the ledger holds at most.
MaxRiskEvents == 2

\* kill_switch events in the ledger beyond which check_conditions is no
\* longer called on a switch that is not latched and is over a threshold.
MaxCycles == 2

\* The thresholds are low enough for each of them to be reached.
RiskConfigs ==
    { [BaseConfig EXCEPT !.halt_on_partial_fill = h,
                         !.max_ws_disconnects_per_hour = 2] : h \in BOOLEAN }

InitRisk ==
    /\ cfg \in RiskConfigs
    /\ Start

CountedRows ==
    Cardinality({ i \in DOMAIN risk_events :
                    risk_events[i].event_type \in CountedEvents })

\* Ledger.log_risk_event(event_type, market_id) by one of its callers.
LogRiskEvent ==
    /\ pc = "idle"
    /\ CountedRows < MaxRiskEvents
    /\ \E e \in CountedEvents : Set(log_risk_event(Cur, e, "m1"))
    /\ UNCHANGED << cfg, now, markets, token_to_market, last_signal,
                    ledger_open, running, cancelling, delivered, returned, ws >>

\* One call of KillSwitch.check_conditions().
CheckConditions ==
    /\ pc = "idle"
    /\ LET reason == check_conditions_reason(Cur)
       IN  /\ reason = "None" \/ ks.triggered \/ KillEvents < MaxCycles
           /\ Set(IF reason # "None" THEN trigger(Cur, reason) ELSE Cur)
           /\ returned' = IF reason # "None" THEN "True" ELSE "False"
    /\ UNCHANGED << cfg, now, markets, token_to_market, last_signal,
                    ledger_open, running, cancelling, delivered, ws >>

NextRisk ==
    \/ LogRiskEvent
    \/ CheckConditions
    \/ ManualTrigger
    \/ Reset
    \/ Resume
    \/ Tick

SpecRisk == InitRisk /\ [][NextRisk]_vars

---------------------------------------------------------------------------
(* The adapter's connection: the receive loop loses the WebSocket and       *)
(* reconnects, while the kill switch reads the ledger.                      *)

\* Reconnects of one run.
MaxReconnects == 2

\* The threshold of ws_disconnect events is as low as the reconnects of a
\* run.
WsConfigs == { [BaseConfig EXCEPT !.max_ws_disconnects_per_hour = 2] }

InitWs ==
    /\ cfg \in WsConfigs
    /\ Start

\* _receive_loop: recv() raises ConnectionClosed; the loop enters
\* _reconnect.
ConnectionClosed ==
    /\ pc = "idle"
    /\ running
    /\ ws.connected
    /\ Len(ws.reconnects) < MaxReconnects
    /\ ws' = [ ws EXCEPT !.connected = FALSE ]
    /\ UNCHANGED << cfg, now, markets, token_to_market, in_flight, cooldowns,
                    last_signal, exec_state, state_log, halted, daily_notional,
                    open_positions, ks, opportunities, tradesets, orders,
                    risk_events, ledger_open, adapter_calls, pc, att, running,
                    cancelling, delivered, returned >>

\* _reconnect: websockets.connect (or the subscription, or the REST
\* snapshot) raises; the delay grows by the backoff factor up to its
\* maximum.
ReconnectFails ==
    /\ ~ws.connected
    /\ ws' = [ ws EXCEPT !.reconnect_delay =
                           Min(@ * reconnect_backoff_factor, reconnect_delay_max) ]
    /\ UNCHANGED << cfg, now, markets, token_to_market, in_flight, cooldowns,
                    last_signal, exec_state, state_log, halted, daily_notional,
                    open_positions, ks, opportunities, tradesets, orders,
                    risk_events, ledger_open, adapter_calls, pc, att, running,
                    cancelling, delivered, returned >>

\* _reconnect: the connection is back, the tokens are subscribed again and
\* the REST snapshots were fetched (their results are dropped); the delay
\* is reset.  The adapter holds no ledger: nothing is recorded.
Reconnected ==
    /\ ~ws.connected
    /\ ws' = [ connected |-> TRUE, reconnect_delay |-> reconnect_delay_initial,
               reconnects |-> Append(ws.reconnects, now) ]
    /\ UNCHANGED << cfg, now, markets, token_to_market, in_flight, cooldowns,
                    last_signal, exec_state, state_log, halted, daily_notional,
                    open_positions, ks, opportunities, tradesets, orders,
                    risk_events, ledger_open, adapter_calls, pc, att, running,
                    cancelling, delivered, returned >>

NextWs ==
    \/ ConnectionClosed
    \/ ReconnectFails
    \/ Reconnected
    \/ CheckConditions
    \/ Tick

SpecWs == InitWs /\ [][NextWs]_vars

---------------------------------------------------------------------------
(* Properties of the signal engine *)

\* The gating predicates of the strategy, in their documented order.
GateOrder ==
    << "SKIP_MARKET_INACTIVE", "SKIP_NO_QUOTES", "SKIP_IN_FLIGHT",
       "SKIP_IN_COOLDOWN", "SKIP_INSUFFICIENT_EDGE", "SKIP_INSUFFICIENT_DEPTH" >>

QuotedEdge(mb) ==
    One - (mb.yes_token.best_ask_price + mb.no_token.best_ask_price)
        - MulRate(mb.yes_token.best_ask_price + mb.no_token.best_ask_price, cfg.fee_rate)
        - cfg.cost_buffer

GateHolds(g, mb) ==
    CASE g = "SKIP_MARKET_INACTIVE"    -> ~mb.active
      [] g = "SKIP_NO_QUOTES"          -> \/ mb.yes_token.best_ask_price = None
                                          \/ mb.no_token.best_ask_price = None
      [] g = "SKIP_IN_FLIGHT"          -> mb.market_id \in in_flight
      [] g = "SKIP_IN_COOLDOWN"        -> now < cooldowns[mb.market_id]
      [] g = "SKIP_INSUFFICIENT_EDGE"  -> QuotedEdge(mb) < cfg.min_edge
      [] g = "SKIP_INSUFFICIENT_DEPTH" ->
             Min(mb.yes_token.best_ask_size, mb.no_token.best_ask_size) < cfg.min_depth

FirstGate(mb) ==
    LET holding == { i \in DOMAIN GateOrder : GateHolds(GateOrder[i], mb) }
    IN  IF holding = {} THEN "TRADE"
        ELSE GateOrder[CHOOSE i \in holding : \A j \in holding : i <= j]

\* C1: the decision of every evaluation is the first gating predicate that
\* holds, in the order inactive, no quotes, in flight, in cooldown,
\* insufficient edge, insufficient depth; it is TRADE exactly when none holds.
C1_FirstGateWins ==
    last_signal.decision # "NONE" =>
        last_signal.decision = FirstGate(markets[last_signal.market_id])

\* C1 witness: the market is both in flight and in cooldown, with quotes
\* that lack edge, and the decision is the earliest of the three.
C1_Witness ==
    /\ last_signal.decision = "SKIP_IN_FLIGHT"
    /\ now < cooldowns[last_signal.market_id]
    /\ QuotedEdge(markets[last_signal.market_id]) < cfg.min_edge

\* C2: a TRADE signal satisfies the edge identity
\* yes_ask + no_ask + (yes_ask + no_ask) * fee_rate + cost_buffer + edge = 1,
\* its edge is at least min_edge and its depth at least min_depth.
C2_TradeSignalSound ==
    last_signal.decision = "TRADE" =>
        /\ last_signal.yes_ask + last_signal.no_ask
             + MulRate(last_signal.yes_ask + last_signal.no_ask, cfg.fee_rate)
             + last_signal.cost_buffer + last_signal.edge = One
        /\ last_signal.edge >= cfg.min_edge
        /\ Min(last_signal.yes_size, last_signal.no_size) >= cfg.min_depth

\* C2 witness: a TRADE signal at both boundaries, edge = min_edge and
\* depth = min_depth.
C2_Witness ==
    /\ last_signal.decision = "TRADE"
    /\ last_signal.edge = cfg.min_edge
    /\ Min(last_signal.yes_size, last_signal.no_size) = cfg.min_depth

---------------------------------------------------------------------------
(* Properties of the execution pipeline *)

\* A step in which _on_book_update evaluated a market: it logged the signal.
Evaluated == Len(opportunities') = Len(opportunities) + 1

\* A step in which the adapter received a place_order request.
OrderPlaced ==
    /\ Len(adapter_calls') = Len(adapter_calls) + 1
    /\ adapter_calls'[Len(adapter_calls')].op = "place"

\* A step in which the attempt in progress reaches the end of its finally
\* block's synchronous part.
AttemptEnds == pc # "cooldown" /\ pc' = "cooldown"

QuotesPresent(mb) ==
    /\ mb.yes_token.best_ask_price # None
    /\ mb.no_token.best_ask_price # None

CallsOf(calls, op, ts, leg) ==
    { i \in DOMAIN calls :
        calls[i].op = op /\ calls[i].ts = ts /\ calls[i].leg = leg }

\* C3: the market of an attempt is in in_flight when an order is placed, and
\* it leaves in_flight only when the attempt's tradeset is filled,
\* partial_fill or failed, also when the pipeline task is cancelled.
C3_InFlightCoversAttempt ==
    [][ /\ OrderPlaced => att'.market_id \in in_flight'
        /\ \A m \in Markets :
             (m \in in_flight /\ m \notin in_flight') =>
                 tradesets'[att.tradeset_id].status
                     \in {"filled", "partial_fill", "failed"} ]_vars

\* C4: an attempt ends with the market's cooldown set to the time of its end
\* plus the configured cooldown, and until then every evaluation of the
\* active market with both asks present yields SKIP_IN_COOLDOWN and creates
\* no tradeset.
C4_CooldownAfterAttempt ==
    [][ /\ AttemptEnds =>
             cooldowns'[att'.market_id] = now + cfg.cooldown
        /\ Evaluated =>
             LET m == last_signal'.market_id
             IN  (/\ now < cooldowns[m]
                  /\ markets'[m].active
                  /\ QuotesPresent(markets'[m]))
                 => /\ last_signal'.decision = "SKIP_IN_COOLDOWN"
                    /\ tradesets' = tradesets ]_vars

\* C4 witness: after an attempt, a qualifying quote evaluated before the
\* cooldown set by that attempt is over.
C4_Witness ==
    /\ tradesets # << >>
    /\ pc = "idle"
    /\ last_signal.decision = "SKIP_IN_COOLDOWN"
    /\ cooldowns[last_signal.market_id] = last_signal.timestamp + cfg.cooldown
    /\ QuotedEdge(markets[last_signal.market_id]) >= cfg.min_edge

\* C5: once an attempt on a market is over, the cooldown has expired and the
\* market is not in flight, an evaluation of the active market with both
\* asks, enough edge and enough depth yields TRADE.
C5_TradeAgain ==
    [][ Evaluated =>
          LET m  == last_signal'.market_id
              mb == markets'[m]
          IN  (/\ \E i \in DOMAIN tradesets : tradesets[i].market_id = m
               /\ now >= cooldowns[m]
               /\ m \notin in_flight
               /\ mb.active
               /\ QuotesPresent(mb)
               /\ QuotedEdge(mb) >= cfg.min_edge
               /\ Min(mb.yes_token.best_ask_size, mb.no_token.best_ask_size)
                     >= cfg.min_depth)
              => last_signal'.decision = "TRADE" ]_vars

\* C5 witness: a TRADE signal for a market whose earlier attempt is over and
\* whose cooldown, set by that attempt, has expired.
C5_Witness ==
    /\ last_signal.decision = "TRADE"
    /\ \E i \in DOMAIN tradesets :
         /\ tradesets[i].market_id = last_signal.market_id
         /\ tradesets[i].status \in {"filled", "partial_fill", "failed"}
    /\ cooldowns[last_signal.market_id] > 0
    /\ last_signal.timestamp >= cooldowns[last_signal.market_id]
    /\ Len(opportunities) > 2

\* C6: a NO order is submitted only after the YES order of the same tradeset
\* was accepted; when the YES placement is rejected or raises, no NO order is
\* submitted, the tradeset is failed and none of its orders carries a fill.
C6_YesBeforeNo ==
    /\ \A i \in DOMAIN adapter_calls :
         (adapter_calls[i].op = "place" /\ adapter_calls[i].leg = "NO") =>
            \E j \in 1..(i - 1) :
               /\ adapter_calls[j].op = "place"
               /\ adapter_calls[j].leg = "YES"
               /\ adapter_calls[j].ts = adapter_calls[i].ts
               /\ adapter_calls[j].resp \notin {"awaiting", "REJECTED", "raise"}
    /\ \A j \in DOMAIN adapter_calls :
         (/\ adapter_calls[j].op = "place"
          /\ adapter_calls[j].leg = "YES"
          /\ adapter_calls[j].resp \in {"REJECTED", "raise"}) =>
            /\ CallsOf(adapter_calls, "place", adapter_calls[j].ts, "NO") = {}
            /\ tradesets[adapter_calls[j].ts].status = "failed"
            /\ \A k \in DOMAIN orders :
                 orders[k].tradeset_id = adapter_calls[j].ts =>
                    orders[k].status = "REJECTED"

\* C6 witness: a live attempt whose YES placement was rejected is over.
C6_Witness ==
    /\ pc = "idle"
    /\ \E j \in DOMAIN adapter_calls :
         /\ adapter_calls[j].op = "place"
         /\ adapter_calls[j].leg = "YES"
         /\ adapter_calls[j].resp = "REJECTED"
         /\ tradesets[adapter_calls[j].ts].status = "failed"

\* The last known status of a leg of the attempt in progress.
LegStatus(a, leg) == IF leg = "YES" THEN a.yes_status ELSE a.no_status

\* C7: an attempt that went through PARTIAL_FILL_PROTECT has sent one cancel
\* for each leg last known as PENDING, OPEN or PARTIALLY_FILLED and none for
\* any other leg, also when a cancel raised; its tradeset is partial_fill; no
\* order was placed after a cancel, every order is a BUY, and an order is
\* only ever placed for a pending tradeset.
C7_PartialFillProtect ==
    [][ /\ (AttemptEnds /\ att'.pfp_yes # "NoOrder") =>
             LET ts == att'.tradeset_id
             IN  /\ tradesets'[ts].status = "partial_fill"
                 /\ \A leg \in {"YES", "NO"} :
                      Cardinality(CallsOf(adapter_calls', "cancel", ts, leg))
                        = IF LegStatus(att', leg)
                               \in {"PENDING", "OPEN", "PARTIALLY_FILLED"}
                          THEN 1 ELSE 0
                 /\ \A i, j \in DOMAIN adapter_calls' :
                      (/\ adapter_calls'[i].ts = ts
                       /\ adapter_calls'[j].ts = ts
                       /\ adapter_calls'[i].op = "cancel"
                       /\ adapter_calls'[j].op = "place") => j < i
                 /\ \A k \in DOMAIN orders' :
                      orders'[k].tradeset_id = ts => orders'[k].side = "BUY"
        /\ OrderPlaced =>
             tradesets'[adapter_calls'[Len(adapter_calls')].ts].status = "pending"
      ]_vars

\* C7 witness: the YES cancel raised, the NO cancel was still sent and the
\* tradeset is partial_fill.
C7_Witness ==
    /\ pc = "cooldown"
    /\ tradesets[att.tradeset_id].status = "partial_fill"
    /\ \E i \in CallsOf(adapter_calls, "cancel", att.tradeset_id, "YES") :
         adapter_calls[i].resp = "raise"
    /\ CallsOf(adapter_calls, "cancel", att.tradeset_id, "NO") # {}

\* C8: an attempt that ended in PARTIAL_FILL_PROTECT with a partially filled
\* leg, or after the wait timed out with exactly one leg filled, has a
\* partial_fill risk event for its market.
C8_PartialFillRecorded ==
    (/\ pc = "cooldown"
     /\ att.pfp_yes # "NoOrder"
     /\ \/ "PARTIALLY_FILLED" \in {att.yes_status, att.no_status}
        \/ /\ att.start_time # None
           /\ now - att.start_time >= cfg.order_timeout
           /\ (att.yes_status = "FILLED") # (att.no_status = "FILLED"))
    => \E i \in DOMAIN risk_events :
          /\ risk_events[i].event_type = "partial_fill"
          /\ risk_events[i].market_id = att.market_id

\* C9: with halt_on_partial_fill, once an attempt has gone through
\* PARTIAL_FILL_PROTECT the kill switch is triggered and has written its
\* kill_switch event, and no later step places an order or creates a
\* tradeset.
C9_PartialFillLatchesKillSwitch ==
    /\ [](( /\ cfg.halt_on_partial_fill
            /\ pc \in {"cooldown", "idle"}
            /\ \E i \in DOMAIN tradesets : tradesets[i].status = "partial_fill" )
          => (ks.triggered /\ KillEvents > 0))
    /\ [][ ( /\ cfg.halt_on_partial_fill
             /\ pc \in {"cooldown", "idle"}
             /\ \E i \in DOMAIN tradesets : tradesets[i].status = "partial_fill" )
           => (tradesets' = tradesets /\ ~OrderPlaced) ]_vars

\* C10: from a state in which the kill switch is triggered, a step other
\* than reset() neither creates a tradeset nor places an order.
C10_LatchedUntilReset ==
    [][ (ks.triggered /\ ks'.triggered) =>
           (Len(tradesets') = Len(tradesets) /\ ~OrderPlaced) ]_vars

---------------------------------------------------------------------------
(* Properties of the kill switch *)

\* Rows of one event type the ledger has recorded within the last hour.
WindowCount(event_type) ==
    Cardinality({ i \in DOMAIN risk_events :
                    /\ risk_events[i].event_type = event_type
                    /\ risk_events[i].created_at > now - HourTicks })

\* One of the three counts has reached its threshold.
OverThreshold ==
    \/ WindowCount("partial_fill") >= cfg.max_partial_fills_per_hour
    \/ WindowCount("reject") >= cfg.max_rejects_per_hour
    \/ WindowCount("ws_disconnect") >= cfg.max_ws_disconnects_per_hour

\* A call of check_conditions whose result differs from the previous one.
CheckReturned == returned' # returned

\* C11: check_conditions returns true, latches the switch and halts the
\* engine (the halt callback) exactly when one of the partial_fill, reject
\* and ws_disconnect counts of the last hour has reached its threshold,
\* whatever halt_on_partial_fill is; otherwise it returns false and changes
\* no state.
C11_CheckConditionsTriggers ==
    [][ CheckReturned =>
          /\ returned' = IF OverThreshold THEN "True" ELSE "False"
          /\ OverThreshold => ks'.triggered /\ halted'
          /\ ~OverThreshold =>
               UNCHANGED << cfg, now, markets, token_to_market, in_flight,
                            cooldowns, last_signal, exec_state, state_log, halted,
                            daily_notional, open_positions, ks, opportunities,
                            tradesets, orders, risk_events, ledger_open,
                            adapter_calls, pc, att, running, cancelling,
                            delivered >> ]_vars

\* What check_conditions does: as C11, except that on a switch that is
\* already latched it returns true and changes nothing, so that the halt
\* callback runs only when the switch latches.
CheckConditionsLatchesOnce ==
    [][ CheckReturned =>
          /\ returned' = IF OverThreshold THEN "True" ELSE "False"
          /\ OverThreshold /\ ~ks.triggered => ks'.triggered /\ halted'
          /\ OverThreshold /\ ks.triggered =>
               UNCHANGED << ks, halted, risk_events >>
          /\ ~OverThreshold => UNCHANGED << ks, halted, risk_events >> ]_vars

\* The switch has latched on the ws_disconnect count with
\* halt_on_partial_fill off.
CheckConditionsWitness ==
    /\ returned = "True"
    /\ ks.reason = "ws_disconnects"
    /\ ~cfg.halt_on_partial_fill
    /\ halted

\* C12: between one latch and the next reset, further triggers record no
\* kill_switch event and leave the trigger reason alone; a latch records
\* exactly one kill_switch event, and nothing else records one.
C12_TriggerIdempotent ==
    [][ /\ ks.triggered /\ ks'.triggered =>
             KillEvents' = KillEvents /\ ks'.reason = ks.reason
        /\ ~ks.triggered /\ ks'.triggered => KillEvents' = KillEvents + 1
        /\ ~ks'.triggered => KillEvents' = KillEvents ]_vars

\* A switch latched by manual_trigger has since been found over a threshold
\* by check_conditions: the only kill_switch event is the manual one.
C12_Witness ==
    /\ ks.triggered
    /\ ks.reason = "Manual trigger"
    /\ returned = "True"
    /\ OverThreshold
    /\ KillEvents = 1

---------------------------------------------------------------------------
(* Properties of the risk check and of paper trading *)

\* The callback evaluates a TRADE signal with the engine not halted, and
\* the pre-trade risk check fails for it.
RiskCheckFails ==
    /\ Evaluated
    /\ last_signal'.decision = "TRADE"
    /\ ~halted
    /\ check_risk_limits(Cur, cfg.order_size,
                         last_signal'.yes_ask + last_signal'.no_ask)

\* C13: a TRADE signal that fails the pre-trade risk check records exactly
\* one risk_limit event and is skipped: no tradeset, no order, no adapter
\* call, and in_flight, cooldown_until, execution state, daily notional and
\* open positions stay as they are; the pipeline stays ready for the next
\* book update.
C13_RiskLimitSkipsTrade ==
    [][ RiskCheckFails =>
          /\ risk_events' =
               Append(risk_events,
                      [ event_type |-> "risk_limit",
                        market_id  |-> last_signal'.market_id,
                        created_at |-> now ])
          /\ UNCHANGED << tradesets, orders, adapter_calls, in_flight,
                          cooldowns, exec_state, daily_notional,
                          open_positions, halted >>
          /\ pc' = "idle"
          /\ running' ]_vars

\* After a trade of market m1 was skipped over a risk limit, a book update
\* of market m2 has been evaluated and recorded.
C13_Witness ==
    /\ \E i \in DOMAIN risk_events :
         /\ risk_events[i].event_type = "risk_limit"
         /\ risk_events[i].market_id = "m1"
    /\ tradesets = << >>
    /\ \E i \in DOMAIN opportunities :
         /\ opportunities[i].market_id = "m1"
         /\ opportunities[i].decision = "TRADE"
         /\ \E j \in DOMAIN opportunities :
              j > i /\ opportunities[j].market_id = "m2"

---------------------------------------------------------------------------
(* Properties of the orchestrator *)

\* The callback has accepted a book update of a registered market.
Accepted == delivered' = delivered + 1

\* C14: while the engine is halted, every accepted book update records one
\* opportunities row with the decision of its signal, and places no order,
\* creates no tradeset and records no risk event.
C14_HaltedStillRecords ==
    [][ halted /\ Accepted =>
          /\ Len(opportunities') = Len(opportunities) + 1
          /\ opportunities'[Len(opportunities')].decision = last_signal'.decision
          /\ UNCHANGED << tradesets, orders, adapter_calls, risk_events >> ]_vars

\* C19: the opportunities table has one row for each book update accepted
\* for a registered market, in every engine state.
C19_RowPerAcceptedUpdate == Len(opportunities) = delivered

\* The callback evaluates a TRADE signal in paper mode that passes the halt
\* check and the risk check.
PaperTrade ==
    /\ Evaluated
    /\ cfg.paper_mode
    /\ last_signal'.decision = "TRADE"
    /\ ~halted
    /\ ~check_risk_limits(Cur, cfg.order_size,
                          last_signal'.yes_ask + last_signal'.no_ask)

\* The row log_order writes for a paper order.
PaperOrder(id, leg, price, hex) ==
    [ order_id |-> PaperOrderId(leg, hex), tradeset_id |-> id,
      market_id |-> last_signal'.market_id, side |-> "BUY", price |-> price,
      size |-> cfg.order_size, status |-> "FILLED" ]

\* C15: in paper mode a TRADE signal that passes the halt and risk checks
\* calls no adapter method and logs two BUY orders, FILLED at yes_ask and
\* no_ask with size order_size, and a tradeset with status filled, fees
\* order_size * (yes_ask + no_ask) * fee_rate and PnL
\* order_size * 1 - yes_cost - no_cost - fees.
C15_PaperFill ==
    [][ PaperTrade =>
          LET sig  == last_signal'
              id   == Len(tradesets')
              ts   == tradesets'[id]
              fees == MulRate(cfg.order_size * (sig.yes_ask + sig.no_ask),
                              cfg.fee_rate)
          IN  /\ adapter_calls' = adapter_calls
              /\ id = Len(tradesets) + 1
              /\ \E u \in Uuids \X Uuids :
                   orders' = orders \o << PaperOrder(id, "YES", sig.yes_ask, u[1]),
                                          PaperOrder(id, "NO", sig.no_ask, u[2]) >>
              /\ ts.status = "filled"
              /\ ts.yes_cost = cfg.order_size * sig.yes_ask
              /\ ts.no_cost = cfg.order_size * sig.no_ask
              /\ ts.total_fees = fees
              /\ ts.realized_pnl =
                   cfg.order_size * One - ts.yes_cost - ts.no_cost - fees ]_vars

\* The example of the claim: asks 0.45 and 0.50, size 10, fee rate 0.02
\* give fees 0.19 and a PnL of 0.31.
C15_Witness ==
    /\ cfg.paper_mode
    /\ cfg.order_size = 10
    /\ cfg.fee_rate = 2
    /\ adapter_calls = << >>
    /\ Len(tradesets) = 1
    /\ tradesets[1].status = "filled"
    /\ tradesets[1].yes_cost = 45000
    /\ tradesets[1].no_cost = 50000
    /\ tradesets[1].total_fees = 1900
    /\ tradesets[1].realized_pnl = 3100
    /\ Len(orders) = 2
    /\ orders[1].price = 4500 /\ orders[1].status = "FILLED"
    /\ orders[2].price = 5000 /\ orders[2].status = "FILLED"

---------------------------------------------------------------------------
(* Properties of the ledger *)

\* The order with this id is in the orders table with status FILLED.
RecordedFilled(order_id) ==
    \E j \in DOMAIN orders :
        orders[j].order_id = order_id /\ orders[j].status = "FILLED"

\* Both orders a filled tradeset references are FILLED in the orders table.
FilledOrdersRecorded ==
    \A i \in DOMAIN tradesets :
        tradesets[i].status = "filled" =>
            /\ RecordedFilled(tradesets[i].yes_order_id)
            /\ RecordedFilled(tradesets[i].no_order_id)

\* The amounts recorded for a filled tradeset close.
FilledAmountsClose ==
    \A i \in DOMAIN tradesets :
        tradesets[i].status = "filled" =>
            tradesets[i].yes_cost + tradesets[i].no_cost + tradesets[i].total_fees
              <= tradesets[i].expected_payout - tradesets[i].realized_pnl

\* C16: for every tradeset whose status is filled, both orders it
\* references are FILLED in the orders table, and
\* yes_cost + no_cost + total_fees <= expected_payout - realized_pnl on the
\* recorded values.
C16_FilledTradesetCloses == FilledOrdersRecorded /\ FilledAmountsClose

\* Every row is pending with no status write, or terminal with one.
StatusWrittenOnce ==
    \A i \in DOMAIN tradesets :
        /\ tradesets[i].status \in {"pending"} \cup TerminalStatus
        /\ tradesets[i].status = "pending" <=> tradesets[i].status_writes = 0
        /\ tradesets[i].status_writes <= 1

\* No row is removed, a terminal status stays, and a status is written by
\* the attempt that created the row.
StatusMovesForward ==
    \A i \in DOMAIN tradesets :
        /\ i \in DOMAIN tradesets'
        /\ tradesets[i].status \in TerminalStatus =>
             tradesets'[i].status = tradesets[i].status
        /\ tradesets'[i].status # tradesets[i].status => att.tradeset_id = i

\* C17: a tradeset is created as pending, is set to a terminal status
\* (filled, partial_fill or failed) at most once, by the attempt that
\* created it, and once terminal its status is never changed again.
C17_StatusForwardOnly == []StatusWrittenOnce /\ [][StatusMovesForward]_vars

\* An attempt has gone through partial-fill protection and has ended: its
\* tradeset is partial_fill after the engine has set the market to FAILED.
C17_Witness ==
    /\ pc = "cooldown"
    /\ Len(tradesets) = 1
    /\ tradesets[1].status = "partial_fill"
    /\ tradesets[1].status_writes = 1

---------------------------------------------------------------------------
(* Properties of error handling *)

\* The attempt of tradeset ts is over.
AttemptOver(ts) == pc \in {"idle", "cooldown"} \/ att.tradeset_id # ts

\* C18: when an adapter call of an attempt (YES placement, NO placement,
\* status poll or cancel) has raised, the attempt ends inside the pipeline
\* with its tradeset failed, an execution_error risk event for the market
\* and the market's cooldown set, and the pipeline goes on.
C18_ExceptionContained ==
    \A i \in DOMAIN adapter_calls :
        LET ts == adapter_calls[i].ts
        IN  adapter_calls[i].resp = "raise" /\ AttemptOver(ts) =>
              /\ tradesets[ts].status = "failed"
              /\ \E j \in DOMAIN risk_events :
                   /\ risk_events[j].event_type = "execution_error"
                   /\ risk_events[j].market_id = tradesets[ts].market_id
              /\ cooldowns[tradesets[ts].market_id] > 0
              /\ running

\* The part of C18 the code keeps: after a raising adapter call the attempt
\* ends inside the pipeline with a terminal tradeset and the cooldown set.
ExceptionEndsAttempt ==
    \A i \in DOMAIN adapter_calls :
        LET ts == adapter_calls[i].ts
        IN  adapter_calls[i].resp = "raise" /\ AttemptOver(ts) =>
              /\ tradesets[ts].status \in {"failed", "partial_fill"}
              /\ cooldowns[tradesets[ts].market_id] > 0
              /\ running

\* The one case in which the whole of C18 is what happens: a status poll
\* has raised.
PollRaisedWitness ==
    /\ pc = "cooldown"
    /\ \E i \in DOMAIN adapter_calls :
         adapter_calls[i].op = "status" /\ adapter_calls[i].resp = "raise"
    /\ tradesets[1].status = "failed"
    /\ \E j \in DOMAIN risk_events : risk_events[j].event_type = "execution_error"

---------------------------------------------------------------------------
(* Properties of the order-book state *)

\* Every token id of the map points to a registered market that has it as
\* its yes or its no token.
TokensPointHome ==
    \A t \in DOMAIN token_to_market :
        /\ token_to_market[t] \in DOMAIN markets
        /\ t \in { markets[token_to_market[t]].yes_token.token_id,
                   markets[token_to_market[t]].no_token.token_id }

\* The two token ids of every registered market map back to it.
MarketsMapBack ==
    \A m \in DOMAIN markets :
        \A t \in { markets[m].yes_token.token_id, markets[m].no_token.token_id } :
            t \in DOMAIN token_to_market /\ token_to_market[t] = m

\* C20: after any sequence of register_market and update_from_snapshot
\* calls, every token id of the token-to-market map points to a registered
\* market that has this token, and the two token ids of every registered
\* market map back to that market.
C20_TokenMapConsistent == TokensPointHome /\ MarketsMapBack

\* A token book that had a sequence number and has one after the step was
\* either left alone or went to a larger sequence number.
SequenceAdvances(old, new) ==
    old.token_id = new.token_id /\ old.sequence # None /\ new.sequence # None
        => new = old \/ new.sequence > old.sequence

\* C21: a snapshot whose sequence number is not larger than the one stored
\* for its token leaves the token book unchanged, so the stored sequence
\* number of a token never decreases.
C21_StaleSnapshotDiscarded ==
    [][ \A m \in DOMAIN markets \cap DOMAIN markets' :
          /\ SequenceAdvances(markets[m].yes_token, markets'[m].yes_token)
          /\ SequenceAdvances(markets[m].no_token, markets'[m].no_token) ]_vars

\* C23: registering a registered market again with the token ids it has
\* leaves the order-book state, its stored quotes included, as it was.
C23_RegisterIdempotent ==
    \A m \in DOMAIN markets :
        register_market([ markets |-> markets,
                          token_to_market |-> token_to_market ],
                        m, markets[m].yes_token.token_id,
                        markets[m].no_token.token_id)
          = [ markets |-> markets, token_to_market |-> token_to_market ]

\* The token is known: the map leads to a registered market that has it.
Known(t) ==
    /\ t \in DOMAIN token_to_market
    /\ token_to_market[t] \in DOMAIN markets
    /\ t \in { markets[token_to_market[t]].yes_token.token_id,
               markets[token_to_market[t]].no_token.token_id }

\* The token book the claim describes after the snapshot: top levels, a
\* side without levels cleared, last_update and sequence of the snapshot.
TopOfBook(snap) ==
    [ token_id       |-> snap.token_id,
      best_bid_price |-> IF Len(snap.bids) > 0 THEN Head(snap.bids).price ELSE None,
      best_bid_size  |-> IF Len(snap.bids) > 0 THEN Head(snap.bids).size ELSE None,
      best_ask_price |-> IF Len(snap.asks) > 0 THEN Head(snap.asks).price ELSE None,
      best_ask_size  |-> IF Len(snap.asks) > 0 THEN Head(snap.asks).size ELSE None,
      last_update    |-> snap.timestamp,
      sequence       |-> snap.sequence ]

QuoteInRange(price, size) ==
    /\ price # None => 0 < price /\ price < One
    /\ size # None => size >= 0

TokenInRange(token) ==
    /\ QuoteInRange(token.best_bid_price, token.best_bid_size)
    /\ QuoteInRange(token.best_ask_price, token.best_ask_size)

\* C25: in every order-book state each stored best bid and best ask price
\* lies strictly between 0 and 1 and each stored size is at least 0.
C25_QuotesInRange ==
    \A m \in DOMAIN markets :
        TokenInRange(markets[m].yes_token) /\ TokenInRange(markets[m].no_token)


---------------------------------------------------------------------------
(* The notional of the pre-trade check *)

\* The callback evaluates a TRADE signal with the engine not halted and
\* with every limit of the pre-trade check other than the daily notional
\* (open positions, hourly event counts) respected.
NotionalDecides ==
    /\ Evaluated
    /\ last_signal'.decision = "TRADE"
    /\ ~halted
    /\ open_positions < cfg.max_open_positions
    /\ risk_events_count(risk_events, "partial_fill")
         < cfg.max_partial_fills_per_hour
    /\ risk_events_count(risk_events, "reject") < cfg.max_rejects_per_hour
    /\ risk_events_count(risk_events, "ws_disconnect")
         < cfg.max_ws_disconnects_per_hour

\* The notional a successful trade adds to the daily total.
TradeNotional == cfg.order_size * (last_signal'.yes_ask + last_signal'.no_ask)

\* C30: the pre-trade check admits a trade exactly when daily_notional +
\* order_size * (yes_ask + no_ask) <= max_daily_notional, the notional the
\* trade adds to the daily total when it succeeds.
C30_CheckChargesTradeNotional ==
    [][ NotionalDecides =>
          /\ Len(tradesets') = Len(tradesets) + 1
               <=> daily_notional + TradeNotional <= cfg.max_daily_notional
          /\ (Len(tradesets') = Len(tradesets) + 1 /\ returned' = "True")
               => daily_notional' = daily_notional + TradeNotional ]_vars


---------------------------------------------------------------------------
(* Rejected placements *)

\* A step in which place_order returned an order of status REJECTED for the
\* given leg.
PlacementRejected(leg) ==
    /\ pc = (IF leg = "YES" THEN "place_yes" ELSE "place_no")
    /\ Len(adapter_calls') >= Len(adapter_calls)
    /\ adapter_calls'[Len(adapter_calls)].resp = "REJECTED"

\* The reject row of the ledger for the market of the attempt.
RejectEvent ==
    [ event_type |-> "reject", market_id |-> att.market_id, created_at |-> now ]

\* The NO placement of tradeset ts was rejected.
NoLegRejected(calls, ts) ==
    \E i \in CallsOf(calls, "place", ts, "NO") : calls[i].resp = "REJECTED"

\* C29: a placement the venue returns as REJECTED records exactly one reject
\* risk event for the market.  A rejected NO leg puts the attempt into
\* PARTIAL_FILL_PROTECT: the YES order is cancelled if its status is
\* PENDING, OPEN or PARTIALLY_FILLED, no other cancel is sent, and the
\* tradeset ends as partial_fill.
C29_RejectHandled ==
    [][ /\ \A leg \in {"YES", "NO"} :
             PlacementRejected(leg) =>
               risk_events' = Append(risk_events, RejectEvent)
        /\ PlacementRejected("NO") =>
             /\ att'.pfp_yes = att.yes_status
             /\ att'.pfp_no = "NoOrder"
             /\ IF att.yes_status \in {"PENDING", "OPEN", "PARTIALLY_FILLED"}
                THEN /\ exec_state'[att.market_id] = "PARTIAL_FILL_PROTECT"
                     /\ adapter_calls'[Len(adapter_calls')] =
                          [ op |-> "cancel", leg |-> "YES",
                            ts |-> att.tradeset_id, resp |-> "awaiting" ]
                     /\ tradesets' = tradesets
                ELSE /\ Len(adapter_calls') = Len(adapter_calls)
                     /\ tradesets'[att.tradeset_id].status = "partial_fill"
                     /\ pc' = "cooldown"
        /\ (AttemptEnds /\ NoLegRejected(adapter_calls', att.tradeset_id)) =>
             /\ tradesets'[att.tradeset_id].status = "partial_fill"
             /\ CallsOf(adapter_calls', "cancel", att.tradeset_id, "NO") = {}
             /\ Cardinality(CallsOf(adapter_calls', "cancel",
                                    att.tradeset_id, "YES")) <= 1
      ]_vars

\* C29 witness: the NO leg was rejected with the YES order pending; the
\* reject event is recorded, the YES order was cancelled and the tradeset
\* is partial_fill.
C29_Witness ==
    /\ pc = "cooldown"
    /\ NoLegRejected(adapter_calls, att.tradeset_id)
    /\ att.pfp_yes = "PENDING"
    /\ CallsOf(adapter_calls, "cancel", att.tradeset_id, "YES") # {}
    /\ tradesets[att.tradeset_id].status = "partial_fill"
    /\ Cardinality({ i \in DOMAIN risk_events :
                       risk_events[i].event_type = "reject" }) = 1


---------------------------------------------------------------------------
(* The execution state machine *)

\* The transitions of the execution state machine.
MachineTransitions ==
    { << "IDLE", "SIGNAL_DETECTED" >>,
      << "SIGNAL_DETECTED", "PLACING_ORDERS" >>,
      << "PLACING_ORDERS", "WAITING_FILLS" >>,
      << "PLACING_ORDERS", "FAILED" >>,
      << "PLACING_ORDERS", "PARTIAL_FILL_PROTECT" >>,
      << "WAITING_FILLS", "SUCCESS" >>,
      << "WAITING_FILLS", "PARTIAL_FILL_PROTECT" >>,
      << "SUCCESS", "COOLDOWN" >>,
      << "FAILED", "COOLDOWN" >>,
      << "PARTIAL_FILL_PROTECT", "COOLDOWN" >>,
      << "COOLDOWN", "IDLE" >> }

\* C26: for each market, every two consecutive execution states are a
\* transition of the machine: IDLE, SIGNAL_DETECTED, PLACING_ORDERS, then
\* WAITING_FILLS, FAILED or PARTIAL_FILL_PROTECT, from WAITING_FILLS to
\* SUCCESS or PARTIAL_FILL_PROTECT, and from SUCCESS, FAILED and
\* PARTIAL_FILL_PROTECT directly to COOLDOWN and then IDLE.
C26_MachineTransitionsOnly ==
    \A m \in Markets :
        \A i \in 1..(Len(state_log[m]) - 1) :
            << state_log[m][i], state_log[m][i + 1] >> \in MachineTransitions

\* C27: a paper-mode attempt takes the market through SIGNAL_DETECTED,
\* PLACING_ORDERS, WAITING_FILLS, SUCCESS and COOLDOWN from IDLE, as a live
\* attempt with both legs filled does, and writes one tradeset, updated
\* to filled, and two orders.
C27_PaperLikeLive ==
    [][ PaperTrade =>
          LET m == last_signal'.market_id
          IN  /\ state_log[m][Len(state_log[m])] = "IDLE"
              /\ state_log'[m] =
                   state_log[m] \o << "SIGNAL_DETECTED", "PLACING_ORDERS",
                                      "WAITING_FILLS", "SUCCESS", "COOLDOWN" >>
              /\ Len(tradesets') = Len(tradesets) + 1
              /\ tradesets'[Len(tradesets')].status = "filled"
              /\ tradesets'[Len(tradesets')].status_writes = 1
              /\ Len(orders') = Len(orders) + 2 ]_vars


---------------------------------------------------------------------------
(* The wait for the fills *)

\* A step in which a round of the wait loop got its two answers from
\* get_order_status.
PollAnswered ==
    /\ pc = "wait_fills"
    /\ now' = now
    /\ ~ /\ Len(adapter_calls') > Len(adapter_calls)
         /\ adapter_calls'[Len(adapter_calls) + 1].op = "status"

\* C28: in live mode an attempt succeeds (tradeset filled, state SUCCESS)
\* exactly when a status poll made less than order_timeout after the NO
\* leg was placed shows both legs FILLED; a poll that shows a leg
\* PARTIALLY_FILLED, and the expiry of the timeout, take the attempt into
\* PARTIAL_FILL_PROTECT, and its tradeset ends as partial_fill.
C28_SuccessWithinTimeout ==
    [][ /\ (PollAnswered /\ ~cfg.paper_mode) =>
             LET id      == att.tradeset_id
                 m       == att.market_id
                 within  == now - att.start_time < cfg.order_timeout
                 both    == att'.yes_status = "FILLED" /\ att'.no_status = "FILLED"
                 partial == "PARTIALLY_FILLED" \in {att'.yes_status, att'.no_status}
                 success == /\ tradesets'[id].status = "filled"
                            /\ state_log'[m] = state_log[m] \o << "SUCCESS", "COOLDOWN" >>
             IN  /\ success <=> (within /\ both)
                 /\ (partial \/ ~within) =>
                      /\ att'.pfp_yes # "NoOrder"
                      /\ Len(state_log'[m]) > Len(state_log[m])
                      /\ state_log'[m][Len(state_log[m]) + 1] = "PARTIAL_FILL_PROTECT"
        /\ (AttemptEnds /\ att'.start_time # None /\ att'.pfp_yes # "NoOrder") =>
             tradesets'[att.tradeset_id].status = "partial_fill"
      ]_vars


---------------------------------------------------------------------------
(* Determinism *)

\* The ledger tables of a state.
LedgerOf(s) == << s.opportunities, s.tradesets, s.orders, s.risk_events >>

\* The state the callback leaves when the adapter delivers snap and
\* uuid4() returns the values u; the state as it is when the snapshot is
\* of no registered market.
AfterSnapshot(snap, u) ==
    LET r == update_from_snapshot(markets, token_to_market, snap)
    IN  IF r.market_id = NoMarket THEN Cur
        ELSE on_book_update([ Cur EXCEPT !.uuid = u ], r.markets, r.market_id).state

\* C22: two runs fed the same snapshots through the same adapter stub with
\* the same clock have the same ledger, order ids included: from every
\* state the pipeline reaches, the same snapshot at the same time leaves
\* the same ledger rows.
C22_LedgerDeterministic ==
    (pc = "idle" /\ running) =>
        \A snap \in PipelineSnapshots \cup PaperSnapshots :
            \A u1, u2 \in Uuids \X Uuids :
                LedgerOf(AfterSnapshot(snap, u1)) = LedgerOf(AfterSnapshot(snap, u2))


---------------------------------------------------------------------------
(* The risk limits *)

\* A step in which an attempt starts: its tradeset is created.
AttemptStarts == Len(tradesets') = Len(tradesets) + 1

\* C31: the accumulated daily notional is at most max_daily_notional and
\* the open-position count is at most max_open_positions in every state,
\* and no attempt starts while the open-position count is at or above
\* max_open_positions.
C31_WithinLimits ==
    /\ [](/\ daily_notional <= cfg.max_daily_notional
          /\ open_positions <= cfg.max_open_positions)
    /\ [][ AttemptStarts => open_positions < cfg.max_open_positions ]_vars

\* C31 witness: with the open positions at their limit after a successful
\* attempt, the next TRADE signal was refused: no second tradeset, one
\* risk_limit event.
C31_Witness ==
    /\ open_positions = cfg.max_open_positions
    /\ daily_notional > 0
    /\ Len(tradesets) = 1
    /\ last_signal.decision = "TRADE"
    /\ \E i \in DOMAIN risk_events : risk_events[i].event_type = "risk_limit"


\* A step in which an attempt succeeds: a market's execution state becomes
\* SUCCESS.
AttemptSucceeds ==
    \E m \in Markets :
        \E i \in (Len(state_log[m]) + 1)..Len(state_log'[m]) :
            state_log'[m][i] = "SUCCESS"

\* The tradesets that were filled.
FilledTradesets == { i \in DOMAIN tradesets : tradesets[i].status = "filled" }

\* C37: the daily-notional and open-position counters never decrease and
\* change only when an attempt succeeds, by the notional of the trade and
\* by one; every other step leaves both as they are.  The successful
\* tradesets of a run never outnumber max_open_positions.
C37_CountersOnlyGrowOnSuccess ==
    /\ [][ /\ daily_notional' >= daily_notional
           /\ open_positions' >= open_positions
           /\ IF AttemptSucceeds
              THEN /\ open_positions' = open_positions + 1
                   /\ daily_notional' = daily_notional
                        + cfg.order_size * (att'.yes_ask + att'.no_ask)
              ELSE UNCHANGED << daily_notional, open_positions >> ]_vars
    /\ [](/\ Cardinality(FilledTradesets) = open_positions
          /\ Cardinality(FilledTradesets) <= cfg.max_open_positions)

\* C37 witness: two attempts succeeded under max_open_positions = 2, one
\* of them after a risk-skipped or failed one left the counters alone.
C37_Witness ==
    /\ cfg.max_open_positions = 2
    /\ Cardinality(FilledTradesets) = 2
    /\ open_positions = 2
    /\ daily_notional = 2 * cfg.order_size * (4800 + 4800)


---------------------------------------------------------------------------
(* Reconnects and the ledger *)

\* The reconnects of the rolling hour.
ReconnectsInHour ==
    Cardinality({ i \in DOMAIN ws.reconnects : ws.reconnects[i] > now - HourTicks })

\* C32: each reconnect of the adapter records one ws_disconnect risk event:
\* the rolling-hour ws_disconnect count the kill switch reads equals the
\* number of reconnects of that hour.
C32_ReconnectsCounted ==
    risk_events_count(risk_events, "ws_disconnect") = ReconnectsInHour


---------------------------------------------------------------------------
(* Shutdown and the ledger *)

\* The tables of the ledger.
LedgerTables == << opportunities, tradesets, orders, risk_events >>

\* C33: shutdown closes the ledger only after the adapter's task has
\* ended, sends no cancel_order (and no other request) to the venue for the
\* orders of an attempt in progress, and nothing is written to the ledger
\* once it is closed, also when stop is called a second time.
C33_ShutdownOrder ==
    /\ [](~ledger_open => (pc = "stopped" /\ ~running /\ ~cancelling))
    /\ [][ /\ ~running' => Len(adapter_calls') = Len(adapter_calls)
           /\ ~ledger_open => UNCHANGED LedgerTables ]_vars

\* C33 witness: the ledger is closed after a shutdown that found an attempt
\* waiting for its NO placement and was followed by a second stop: the
\* tradeset is still pending, the market was left in COOLDOWN, the YES
\* order was never cancelled.
C33_Witness ==
    /\ ~ledger_open
    /\ Len(tradesets) = 1
    /\ tradesets[1].status = "pending"
    /\ exec_state["m1"] = "COOLDOWN"
    /\ CallsOf(adapter_calls, "place", 1, "NO") # {}
    /\ adapter_calls[Len(adapter_calls)].resp = "cancelled"
    /\ \A i \in DOMAIN adapter_calls : adapter_calls[i].op # "cancel"


---------------------------------------------------------------------------
(* Termination of an attempt *)

\* An attempt of market m is in progress at a time that leaves the clock
\* of a run room for the whole wait.
AttemptRunning(m) ==
    /\ att.market_id = m
    /\ now + cfg.order_timeout <= MaxNow

\* The attempt of market m is over.
AttemptFinished(m) ==
    /\ att.market_id # m
    /\ m \notin in_flight
    /\ exec_state[m] = "IDLE"

\* C34: when every adapter call returns or raises, every attempt that
\* starts finishes with the market's execution state back at IDLE and the
\* market out of in_flight, on every path; the wait for the fills ends.
C34_AttemptTerminates ==
    \A m \in Markets : AttemptRunning(m) ~> AttemptFinished(m)

\* C34 witness: an attempt whose wait for the fills timed out is over.
C34_Witness ==
    /\ ~cfg.paper_mode
    /\ pc = "idle"
    /\ Len(tradesets) = 1
    /\ tradesets[1].status = "partial_fill"
    /\ \E i \in DOMAIN state_log["m1"] : state_log["m1"][i] = "WAITING_FILLS"
    /\ ~ \E i \in DOMAIN risk_events : risk_events[i].event_type = "partial_fill"
    /\ AttemptFinished("m1")


---------------------------------------------------------------------------
(* One attempt per market *)

\* The pending tradesets of market m.
PendingTradesets(rows, m) ==
    { i \in DOMAIN rows : rows[i].market_id = m /\ rows[i].status = "pending" }

\* C35: a market has at most one pending tradeset at a time, and an attempt
\* starts only for a market that has none in progress, also when
\* callbacks for the market are invoked while its attempt is suspended.
C35_OnePendingPerMarket ==
    /\ [](\A m \in Markets : Cardinality(PendingTradesets(tradesets, m)) <= 1)
    /\ [][ AttemptStarts =>
             LET m == tradesets'[Len(tradesets')].market_id
             IN  /\ m \notin in_flight
                 /\ att.market_id # m
                 /\ PendingTradesets(tradesets, m) = {} ]_vars

\* C35 witness: while the attempt of market m1 waits for its NO placement,
\* a callback for m1 was evaluated and skipped as in flight.
C35_Witness ==
    /\ pc = "place_no"
    /\ att.market_id = "m1"
    /\ PendingTradesets(tradesets, "m1") = {1}
    /\ last_signal.market_id = "m1"
    /\ last_signal.decision = "SKIP_IN_FLIGHT"
    /\ opportunities[Len(opportunities)].decision = "SKIP_IN_FLIGHT"


---------------------------------------------------------------------------
(* One attempt at a time *)

\* The markets whose execution state is not IDLE.
MarketsInProgress == { m \in Markets : exec_state[m] # "IDLE" }

\* C36: with one adapter task awaiting each callback, at most one attempt
\* is in progress across all markets: in_flight holds at most one market,
\* the market of the running attempt, and no book update is applied or
\* evaluated while an attempt is in progress.
C36_OneAttemptAtATime ==
    /\ [](/\ Cardinality(in_flight) <= 1
          /\ Cardinality(MarketsInProgress) <= 1
          /\ in_flight # {} => (pc # "idle" /\ in_flight = {att.market_id})
          /\ MarketsInProgress # {} => (pc # "idle" /\ MarketsInProgress = {att.market_id}))
    /\ [][ pc # "idle" =>
             UNCHANGED << markets, opportunities, last_signal, delivered >> ]_vars

\* C36 witness: after an attempt for m1 has ended, market m2 is the one
\* market in flight, its attempt polling for fills.
C36_Witness ==
    /\ Len(tradesets) = 2
    /\ tradesets[1].market_id = "m1"
    /\ tradesets[2].market_id = "m2"
    /\ pc = "wait_fills"
    /\ in_flight = {"m2"}
    /\ MarketsInProgress = {"m2"}


---------------------------------------------------------------------------
(* reset() and resume() *)

\* The step clears the latch of the kill switch: a call of reset().
LatchCleared == ks.triggered /\ ~ks'.triggered

\* C38: reset() clears the latch, its reason and its time and leaves the
\* halted flag as it is; while the engine is halted no attempt starts, and
\* the halted flag is cleared only by resume(), which leaves the kill
\* switch as it is.
C38_ResetLeavesHalted ==
    [][ /\ LatchCleared =>
             (ks' = NoTrigger /\ halted' = halted /\ tradesets' = tradesets)
        /\ halted => (~AttemptStarts /\ ~OrderPlaced)
        /\ (halted /\ ~halted') => ks' = ks ]_vars

\* C38 witness: the kill switch was triggered and reset, the engine is
\* still halted, and the TRADE signal evaluated since has started no
\* attempt.
C38_Witness ==
    /\ KillEvents = 1
    /\ ~ks.triggered
    /\ halted
    /\ last_signal.decision = "TRADE"
    /\ opportunities[Len(opportunities)].decision = "TRADE"
    /\ tradesets = << >>
    /\ adapter_calls = << >>


---------------------------------------------------------------------------
(* The PnL of a paper trade *)

\* C39: the PnL recorded for a tradeset filled in paper mode is
\* order_size * (edge + cost_buffer) of the TRADE signal that caused it,
\* and so at least order_size * (min_edge + cost_buffer).
C39_PaperPnlIsEdge ==
    [][ PaperTrade =>
          LET sig == last_signal'
              ts  == tradesets'[Len(tradesets')]
          IN  /\ ts.status = "filled"
              /\ ts.market_id = sig.market_id
              /\ ts.realized_pnl = cfg.order_size * (sig.edge + sig.cost_buffer)
              /\ ts.realized_pnl >= cfg.order_size * (cfg.min_edge + cfg.cost_buffer) ]_vars

\* C39 witness: asks of 0.48 and 0.48 in market m2 give the edge 0.0158,
\* and the tradeset filled on that signal records the PnL 0.208.
C39_Witness ==
    /\ cfg.paper_mode
    /\ last_signal.decision = "TRADE"
    /\ last_signal.market_id = "m2"
    /\ last_signal.edge = 158
    /\ Len(tradesets) > 0
    /\ tradesets[Len(tradesets)].market_id = "m2"
    /\ tradesets[Len(tradesets)].status = "filled"
    /\ tradesets[Len(tradesets)].realized_pnl = 10 * (158 + 50)


---------------------------------------------------------------------------
(* The NO leg after the YES placement *)

\* An order with one of these statuses has filled or can still fill.
LiveStatuses == {"PENDING", "OPEN", "PARTIALLY_FILLED", "FILLED"}

\* C40: a NO order is placed only after the YES placement of the same
\* tradeset returned PENDING, OPEN, PARTIALLY_FILLED or FILLED; a YES order
\* returned as REJECTED, CANCELLED or EXPIRED is followed by no NO order.
C40_NoLegOnlyAfterLiveYes ==
    /\ \A i \in DOMAIN adapter_calls :
         (adapter_calls[i].op = "place" /\ adapter_calls[i].leg = "NO") =>
            \E j \in 1..(i - 1) :
               /\ adapter_calls[j].op = "place"
               /\ adapter_calls[j].leg = "YES"
               /\ adapter_calls[j].ts = adapter_calls[i].ts
               /\ adapter_calls[j].resp \in LiveStatuses
    /\ \A j \in DOMAIN adapter_calls :
         (/\ adapter_calls[j].op = "place"
          /\ adapter_calls[j].leg = "YES"
          /\ adapter_calls[j].resp \in {"REJECTED", "CANCELLED", "EXPIRED"}) =>
            CallsOf(adapter_calls, "place", adapter_calls[j].ts, "NO") = {}

===========================================================================
